---- MODULE Spec2Model ----
(***************************************************************************)
(* Reunion management: the contribution ledger, the attendee ("student")   *)
(* records with their denormalized contributionAmount / paidStatus, and    *)
(* the HTTP handlers that drive them, for both storage backends            *)
(* (MemStorage, in-memory maps; DatabaseStorage, PostgreSQL via drizzle).  *)
(*                                                                         *)
(* A request is a process: it runs from one await point to the next as one *)
(* atomic step.  In MemStorage an awaited storage method runs its body     *)
(* synchronously at the call (async functions run up to their first        *)
(* await), so a step is "the code up to and including the awaited call".   *)
(* In DatabaseStorage every awaited method is one SQL statement, executed  *)
(* atomically by the database at some later point: one step per statement. *)
(***************************************************************************)
EXTENDS Integers, Sequences, FiniteSets, TLC

VARIABLES
  backend,                \* "mem" (MemStorage) or "db" (DatabaseStorage)
  students,               \* studentMap / students table: id -> Student
  currentStudentId,       \* next student id (counter / serial)
  contributions,          \* contributionMap / contributions table: id -> Contribution
  currentContributionId,  \* next contribution id (counter / serial)
  budgetItems,            \* budgetItemMap / budget_items table: id -> BudgetItem
  currentBudgetItemId,    \* next budget item id (counter / serial)
  expenses,               \* expenseMap / expenses table: id -> Expense
  currentExpenseId,       \* next expense id (counter / serial)
  users,                  \* userMap / users table: id -> User
  currentUserId,          \* next user id (counter / serial)
  twin,                   \* a second storage instance served the same requests
  req                     \* the requests in flight: process -> request record

vars == <<backend, students, currentStudentId, contributions,
          currentContributionId, budgetItems, currentBudgetItemId, expenses,
          currentExpenseId, users, currentUserId, twin, req>>

\* the attendee and ledger tables with their counters
ledgerVars == <<students, currentStudentId, contributions,
                currentContributionId>>

\* the budget item and expense tables with their counters
budgetVars == <<budgetItems, currentBudgetItemId, expenses, currentExpenseId>>

\* the user table with its counter
authVars == <<users, currentUserId>>

------------------------------------------------------------------------------
(* Bounds of the model *)

\* no more than this many contribution rows are ever inserted
MaxContributions == 3
\* no more than this many student rows are ever inserted
MaxStudents == 4
\* no more than this many budget items are ever inserted
MaxBudgetItems == 2
\* no more than this many expenses are ever inserted
MaxExpenses == 2

Procs == {1, 2, 3}
Backends == {"mem", "db"}
PositiveAmounts == {1, 2}
RawAmounts == {-1, 0, 1, 2}
Dates == {1}

------------------------------------------------------------------------------
(* Values *)

\* undefined / null / "no row": the empty tuple; a present value v is <<v>>
None == <<>>
Some(v) == <<v>>

\* JS `x || 0` on a nullable number
OrZero(v) == IF v = None THEN 0 ELSE v[1]

\* JS truthiness of a nullable number (null, undefined and 0 are falsy)
Truthy(v) == v # None /\ v[1] # 0

Max(a, b) == IF a >= b THEN a ELSE b

\* JS object spread {...row, ...data} for a row that has every field of data
Merge(row, data) ==
  [f \in DOMAIN row |-> IF f \in DOMAIN data THEN data[f] ELSE row[f]]

PaidStatuses == {"paid", "pending", "not_paid", "not_applicable"}
AttendingStatuses == {"attending", "not_attending", "not_confirmed"}
Sections == {"A", "B", "C", "D"}

\* the principals a request can be authenticated as (req.user)
SuperAdmin == [id |-> 1, role |-> "superadmin", section |-> "-"]
SectionAdminA == [id |-> 2, role |-> "section_admin", section |-> "A"]
StudentUser == [id |-> 3, role |-> "student", section |-> "A"]

RECURSIVE SumAmounts(_, _)
\* sum of row.amount over the rows of `rows` (id -> row) with ids in `ids`
SumAmounts(rows, ids) ==
  IF ids = {} THEN 0
  ELSE LET i == CHOOSE x \in ids : TRUE
       IN rows[i].amount + SumAmounts(rows, ids \ {i})

\* ids of the ledger rows whose studentId is sid
RowsOf(rows, sid) == {i \in DOMAIN rows : rows[i].studentId = sid}

\* sum(contribution.amount for contribution in ledger where studentId = sid)
LedgerSum(sid) == SumAmounts(contributions, RowsOf(contributions, sid))

------------------------------------------------------------------------------
(* Storage reads *)

\* getStudent(id): the row or undefined
GetStudent(id) ==
  IF id \in DOMAIN students THEN Some(students[id]) ELSE None

\* getContribution(id) / contributionMap.get(id)
GetContribution(id) ==
  IF id \in DOMAIN contributions THEN Some(contributions[id]) ELSE None

\* getContributions({studentId}).length
\* (the filter is skipped when studentId is falsy; student ids start at 1)
CountContributions(sid) ==
  IF sid = 0 THEN Cardinality(DOMAIN contributions)
  ELSE Cardinality(RowsOf(contributions, sid))

\* updateStudent(id, data): the students map after the call
\* (MemStorage: get, spread, set; DatabaseStorage: UPDATE .. SET data WHERE id)
UpdateStudent(id, data) ==
  IF id \in DOMAIN students
  THEN [students EXCEPT ![id] = Merge(students[id], data)]
  ELSE students

\* ids of the students whose mobile is m
WithMobile(m) == {i \in DOMAIN students : students[i].mobile = m}

\* getStudentByMobile that never matches
GetStudentByMobileNever(m) == None

\* getStudentByMobile(mobile): the first match (MemStorage: in map order,
\* which is id order; DatabaseStorage: LIMIT 1 over a unique column)
GetStudentByMobile(m) ==
  IF WithMobile(m) = {} THEN None
  ELSE Some(students[CHOOSE i \in WithMobile(m) : \A j \in WithMobile(m) : i <= j])

------------------------------------------------------------------------------
(* Requests *)

\* op: the handler; pc: the storage call it is suspended before; id, body: its
\* inputs; contribution, student, existing, idx, created, allBudgetItems,
\* allExpenses, totalExpenses, allStudents, totalContributions: its locals;
\* status,
\* ret, result: the HTTP status, the storage method's kind of return value,
\* and the row it returned
IdleReq ==
  [op |-> "idle", pc |-> "idle", user |-> SuperAdmin, id |-> 0,
   body |-> None, contribution |-> None, student |-> None, existing |-> 0,
   idx |-> 0, created |-> <<>>, allBudgetItems |-> <<>>, allExpenses |-> <<>>,
   totalExpenses |-> None, allStudents |-> <<>>, totalContributions |-> None,
   status |-> 0, ret |-> "-", result |-> None]

IsAdmin(user) == user.role \in {"superadmin", "section_admin"}

AllIdle == \A p \in Procs : req[p].pc = "idle"

\* the storage method returned `ret` (with row `result`) and the handler
\* answered res.status(code)
Reply(r, code, ret, result) ==
  [r EXCEPT !.pc = "done", !.status = code, !.ret = ret, !.result = result]

\* a map with key id set to row (Map.set / INSERT / UPDATE of one row)
SetRow(rows, id, row) ==
  [i \in DOMAIN rows \cup {id} |-> IF i = id THEN row ELSE rows[i]]

\* a map without key id (Map.delete / DELETE .. WHERE id)
DeleteRow(rows, id) == [i \in DOMAIN rows \ {id} |-> rows[i]]

------------------------------------------------------------------------------
(* createContribution *)

\* the Contribution row made from an InsertContribution
NewContribution(id, ins) ==
  [id |-> id, studentId |-> ins.studentId, amount |-> ins.amount,
   date |-> ins.date, recordedBy |-> ins.recordedBy]

\* createContribution that promotes to paid on every contribution, not only
\* the first
CreateUpdateDataAlwaysPaid(student, existing, amount) ==
  LET total == Some(OrZero(student.contributionAmount) + amount)
  IN IF existing >= 1 /\ student.paidStatus # "paid"
     THEN [contributionAmount |-> total, paidStatus |-> "paid"]
     ELSE [contributionAmount |-> total]

\* createContribution that writes the total back without the new amount
CreateUpdateDataKeepsTotal(student, existing, amount) ==
  LET total == Some(OrZero(student.contributionAmount))
  IN IF existing = 1 /\ student.paidStatus # "paid"
     THEN [contributionAmount |-> total, paidStatus |-> "paid"]
     ELSE [contributionAmount |-> total]

\* updateData of createContribution: the new total, and paidStatus = paid
\* when this is the only contribution and the status is not already paid
CreateUpdateData(student, existing, amount) ==
  LET total == Some(OrZero(student.contributionAmount) + amount)
  IN IF existing = 1 /\ student.paidStatus # "paid"
     THEN [contributionAmount |-> total, paidStatus |-> "paid"]
     ELSE [contributionAmount |-> total]

\* MemStorage.createContribution up to `await this.getStudent(..)`
MemCreateContribution(p, r, ins) ==
  LET id == currentContributionId
      row == NewContribution(id, ins)
      student == GetStudent(ins.studentId)
  IN /\ currentContributionId' = id + 1
     /\ contributions' = SetRow(contributions, id, row)
     /\ req' = [req EXCEPT ![p] =
          IF student = None
          THEN Reply(r, 201, "contribution", Some(row))
          ELSE [r EXCEPT !.pc = "getContributions", !.contribution = Some(row),
                         !.student = student]]
     /\ UNCHANGED <<backend, authVars, twin,
                    budgetVars, students, currentStudentId>>

\* DatabaseStorage.createContribution: the INSERT; contributions.student_id
\* references students.id, so a missing student makes the statement throw
\* (the serial value is consumed all the same) and the route answers 500
DbCreateContribution(p, r, ins) ==
  LET id == currentContributionId
      row == NewContribution(id, ins)
  IN /\ currentContributionId' = id + 1
     /\ IF ins.studentId \in DOMAIN students
        THEN /\ contributions' = SetRow(contributions, id, row)
             /\ req' = [req EXCEPT ![p] =
                  [r EXCEPT !.pc = "getStudent", !.contribution = Some(row)]]
        ELSE /\ contributions' = contributions
             /\ req' = [req EXCEPT ![p] = Reply(r, 500, "throw", None)]
     /\ UNCHANGED <<backend, authVars, twin,
                    budgetVars, students, currentStudentId>>

\* POST /api/contributions
PostContributions(p, user, body) ==
  LET r == [IdleReq EXCEPT !.op = "createContribution", !.user = user,
                           !.body = body]
      ins == [studentId |-> body.studentId, amount |-> body.amount,
              date |-> body.date, recordedBy |-> user.id]
  IN /\ req[p].pc = "idle"
     /\ currentContributionId <= MaxContributions
     /\ IF ~IsAdmin(user)
        THEN /\ req' = [req EXCEPT ![p] = Reply(r, 403, "-", None)]
             /\ UNCHANGED <<backend, authVars, twin, budgetVars,
                            students, currentStudentId, contributions,
                            currentContributionId>>
        ELSE IF backend = "mem"
        THEN MemCreateContribution(p, r, ins)
        ELSE DbCreateContribution(p, r, ins)

\* DatabaseStorage.createContribution: `await this.getStudent(..)`
DbCreateContributionGetStudent(p) ==
  LET r == req[p]
      student == GetStudent(r.contribution[1].studentId)
  IN /\ backend = "db" /\ r.op = "createContribution" /\ r.pc = "getStudent"
     /\ req' = [req EXCEPT ![p] =
          IF student = None
          THEN Reply(r, 201, "contribution", r.contribution)
          ELSE [r EXCEPT !.pc = "getContributions", !.student = student]]
     /\ UNCHANGED <<backend, authVars, twin, budgetVars,
                    students, currentStudentId, contributions,
                    currentContributionId>>

\* createContribution: `await this.getContributions({ studentId: student.id })`
CreateContributionGetContributions(p) ==
  LET r == req[p]
  IN /\ r.op = "createContribution" /\ r.pc = "getContributions"
     /\ req' = [req EXCEPT ![p] =
          [r EXCEPT !.pc = "updateStudent",
                    !.existing = CountContributions(r.student[1].id)]]
     /\ UNCHANGED <<backend, authVars, twin, budgetVars,
                    students, currentStudentId, contributions,
                    currentContributionId>>

\* createContribution: `await this.updateStudent(student.id, updateData)`,
\* then the return and the route's 201
CreateContributionUpdateStudent(p) ==
  LET r == req[p]
      student == r.student[1]
      updateData == CreateUpdateData(student, r.existing,
                                     r.contribution[1].amount)
  IN /\ r.op = "createContribution" /\ r.pc = "updateStudent"
     /\ students' = UpdateStudent(student.id, updateData)
     /\ req' = [req EXCEPT ![p] = Reply(r, 201, "contribution", r.contribution)]
     /\ UNCHANGED <<backend, authVars, twin,
                    budgetVars, currentStudentId, contributions,
                    currentContributionId>>

\* createContribution whose failed attendee update takes the inserted row
\* back out of the ledger
DbCreateContributionUpdateStudentRollsBack(p) ==
  LET r == req[p]
  IN /\ backend = "db"
     /\ r.op = "createContribution" /\ r.pc = "updateStudent"
     /\ contributions' = DeleteRow(contributions, r.contribution[1].id)
     /\ req' = [req EXCEPT ![p] = Reply(r, 500, "throw", None)]
     /\ UNCHANGED <<backend, authVars, twin,
                    budgetVars, students, currentStudentId,
                    currentContributionId>>

\* DatabaseStorage.createContribution: the UPDATE of `await
\* this.updateStudent(..)` fails (the statement is rejected or the connection
\* is lost); nothing catches it before the route's catch, which answers 500
DbCreateContributionUpdateStudentFaults(p) ==
  LET r == req[p]
  IN /\ backend = "db"
     /\ r.op = "createContribution" /\ r.pc = "updateStudent"
     /\ req' = [req EXCEPT ![p] = Reply(r, 500, "throw", None)]
     /\ UNCHANGED <<backend, authVars, twin,
                    budgetVars, students, currentStudentId,
                    contributions, currentContributionId>>

\* the response has been sent; the process can serve another request
Respond(p) ==
  /\ req[p].pc = "done"
  /\ req' = [req EXCEPT ![p] = IdleReq]
  /\ UNCHANGED <<backend, authVars, twin, budgetVars,
                 students, currentStudentId, contributions,
                 currentContributionId>>

------------------------------------------------------------------------------
(* updateContribution *)

\* "amount is changing": contributionData.amount !== undefined &&
\* contributionData.amount !== contribution.amount
AmountChanges(contribution, data) ==
  "amount" \in DOMAIN data /\ data.amount # contribution.amount

\* updateContribution that adds the new amount instead of the difference
UpdateUpdateDataAddsAmount(student, contribution, data) ==
  [contributionAmount |->
     Some(OrZero(student.contributionAmount) + data.amount)]

\* the attendee update of updateContribution: currentAmount + amountDiff
UpdateUpdateData(student, contribution, data) ==
  LET amountDiff == data.amount - contribution.amount
      currentAmount == OrZero(student.contributionAmount)
  IN [contributionAmount |-> Some(currentAmount + amountDiff)]

\* MemStorage.updateContribution without the existence check: a missing id is
\* set from the data
MemUpdateContributionUpsert(p, r, id, data) ==
  /\ contributions' = SetRow(contributions, id,
       IF id \in DOMAIN contributions THEN Merge(contributions[id], data)
       ELSE data)
  /\ req' = [req EXCEPT ![p] = Reply(r, 200, "contribution", None)]
  /\ UNCHANGED <<backend, authVars, twin, budgetVars,
                 students, currentStudentId, currentContributionId>>

\* MemStorage.updateContribution up to its first await: the existence check,
\* then `await this.getStudent(..)` when the amount changes, else the
\* contributionMap.set and the return
MemUpdateContribution(p, r, id, data) ==
  LET found == GetContribution(id)
  IN IF found = None
     THEN /\ req' = [req EXCEPT ![p] = Reply(r, 404, "undefined", None)]
          /\ UNCHANGED <<backend, authVars, twin, budgetVars,
                         students, currentStudentId, contributions,
                         currentContributionId>>
     ELSE IF AmountChanges(found[1], data)
     THEN /\ req' = [req EXCEPT ![p] =
               [r EXCEPT !.contribution = found,
                         !.student = GetStudent(found[1].studentId),
                         !.pc = IF GetStudent(found[1].studentId) = None
                                THEN "updateRow" ELSE "updateStudent"]]
          /\ UNCHANGED <<backend, authVars, twin, budgetVars,
                         students, currentStudentId, contributions,
                         currentContributionId>>
     ELSE /\ contributions' = SetRow(contributions, id, Merge(found[1], data))
          /\ req' = [req EXCEPT ![p] =
               Reply([r EXCEPT !.contribution = found], 200, "contribution",
                     Some(Merge(found[1], data)))]
          /\ UNCHANGED <<backend, authVars, twin,
                         budgetVars, students, currentStudentId,
                         currentContributionId>>

\* DatabaseStorage.updateContribution: `await this.getContribution(id)` and
\* the existence check
DbUpdateContribution(p, r, id, data) ==
  LET found == GetContribution(id)
  IN /\ req' = [req EXCEPT ![p] =
          IF found = None
          THEN Reply(r, 404, "undefined", None)
          ELSE [r EXCEPT !.contribution = found,
                         !.pc = IF AmountChanges(found[1], data)
                                THEN "getStudent" ELSE "updateRow"]]
     /\ UNCHANGED <<backend, authVars, twin, budgetVars,
                    students, currentStudentId, contributions,
                    currentContributionId>>

\* PUT /api/contributions/:id
PutContributions(p, user, id, body) ==
  LET r == [IdleReq EXCEPT !.op = "updateContribution", !.user = user,
                           !.id = id, !.body = body]
  IN /\ req[p].pc = "idle"
     /\ IF ~IsAdmin(user)
        THEN /\ req' = [req EXCEPT ![p] = Reply(r, 403, "-", None)]
             /\ UNCHANGED <<backend, authVars, twin, budgetVars,
                            students, currentStudentId, contributions,
                            currentContributionId>>
        ELSE IF backend = "mem"
        THEN MemUpdateContribution(p, r, id, body)
        ELSE DbUpdateContribution(p, r, id, body)

\* DatabaseStorage.updateContribution: `await this.getStudent(..)`
DbUpdateContributionGetStudent(p) ==
  LET r == req[p]
      student == GetStudent(r.contribution[1].studentId)
  IN /\ backend = "db" /\ r.op = "updateContribution" /\ r.pc = "getStudent"
     /\ req' = [req EXCEPT ![p] =
          [r EXCEPT !.student = student,
                    !.pc = IF student = None THEN "updateRow"
                           ELSE "updateStudent"]]
     /\ UNCHANGED <<backend, authVars, twin, budgetVars,
                    students, currentStudentId, contributions,
                    currentContributionId>>

\* updateContribution: `await this.updateStudent(student.id, {..})`
UpdateContributionUpdateStudent(p) ==
  LET r == req[p]
      student == r.student[1]
  IN /\ r.op = "updateContribution" /\ r.pc = "updateStudent"
     /\ students' = UpdateStudent(student.id,
                      UpdateUpdateData(student, r.contribution[1], r.body))
     /\ req' = [req EXCEPT ![p] = [r EXCEPT !.pc = "updateRow"]]
     /\ UNCHANGED <<backend, authVars, twin,
                    budgetVars, currentStudentId, contributions,
                    currentContributionId>>

\* MemStorage.updateContribution: contributionMap.set(id, {...contribution,
\* ...contributionData}) with the contribution read before the awaits
MemUpdateContributionSet(p) ==
  LET r == req[p]
      updatedContribution == Merge(r.contribution[1], r.body)
  IN /\ backend = "mem" /\ r.op = "updateContribution" /\ r.pc = "updateRow"
     /\ contributions' = SetRow(contributions, r.id, updatedContribution)
     /\ req' = [req EXCEPT ![p] =
          Reply(r, 200, "contribution", Some(updatedContribution))]
     /\ UNCHANGED <<backend, authVars, twin,
                    budgetVars, students, currentStudentId,
                    currentContributionId>>

\* DatabaseStorage.updateContribution: UPDATE contributions SET data WHERE
\* id RETURNING; no row gives result[0] undefined and the route's 404
DbUpdateContributionSet(p) ==
  LET r == req[p]
  IN /\ backend = "db" /\ r.op = "updateContribution" /\ r.pc = "updateRow"
     /\ IF r.id \in DOMAIN contributions
        THEN /\ contributions' =
                  SetRow(contributions, r.id, Merge(contributions[r.id], r.body))
             /\ req' = [req EXCEPT ![p] =
                  Reply(r, 200, "contribution",
                        Some(Merge(contributions[r.id], r.body)))]
        ELSE /\ contributions' = contributions
             /\ req' = [req EXCEPT ![p] = Reply(r, 404, "undefined", None)]
     /\ UNCHANGED <<backend, authVars, twin,
                    budgetVars, students, currentStudentId,
                    currentContributionId>>

------------------------------------------------------------------------------
(* deleteContribution *)

\* deleteContribution without the Math.max(0, ..) floor
DeleteUpdateDataUnclamped(student, contribution) ==
  [contributionAmount |->
     Some(OrZero(student.contributionAmount) - contribution.amount)]

\* deleteContribution that writes the total back without the decrement
DeleteUpdateDataKeepsTotal(student, contribution) ==
  [contributionAmount |-> Some(Max(0, OrZero(student.contributionAmount)))]

\* deleteContribution that resets paidStatus when the total reaches 0
DeleteUpdateDataRevertsStatus(student, contribution) ==
  LET total == Max(0, OrZero(student.contributionAmount) - contribution.amount)
  IN IF total = 0
     THEN [contributionAmount |-> Some(total), paidStatus |-> "not_paid"]
     ELSE [contributionAmount |-> Some(total)]

\* the attendee update of deleteContribution:
\* Math.max(0, currentAmount - contribution.amount)
DeleteUpdateData(student, contribution) ==
  [contributionAmount |->
     Some(Max(0, OrZero(student.contributionAmount) - contribution.amount))]

\* MemStorage.deleteContribution writes the attendee whenever it exists
MemDeleteWrites(student) == student # None

\* DatabaseStorage.deleteContribution writes the attendee only when
\* `student && student.contributionAmount`
DbDeleteWrites(student) ==
  student # None /\ Truthy(student[1].contributionAmount)

\* MemStorage.deleteContribution up to `await this.getStudent(..)`
MemDeleteContribution(p, r, id) ==
  LET found == GetContribution(id)
  IN /\ req' = [req EXCEPT ![p] =
          IF found = None
          THEN Reply(r, 404, "false", None)
          ELSE [r EXCEPT !.contribution = found,
                         !.student = GetStudent(found[1].studentId),
                         !.pc = IF MemDeleteWrites(GetStudent(found[1].studentId))
                                THEN "updateStudent" ELSE "deleteRow"]]
     /\ UNCHANGED <<backend, authVars, twin, budgetVars,
                    students, currentStudentId, contributions,
                    currentContributionId>>

\* DatabaseStorage.deleteContribution: `await this.getContribution(id)`
DbDeleteContribution(p, r, id) ==
  LET found == GetContribution(id)
  IN /\ req' = [req EXCEPT ![p] =
          IF found = None
          THEN Reply(r, 404, "false", None)
          ELSE [r EXCEPT !.contribution = found, !.pc = "getStudent"]]
     /\ UNCHANGED <<backend, authVars, twin, budgetVars,
                    students, currentStudentId, contributions,
                    currentContributionId>>

\* DELETE /api/contributions/:id
DeleteContributions(p, user, id) ==
  LET r == [IdleReq EXCEPT !.op = "deleteContribution", !.user = user,
                           !.id = id]
  IN /\ req[p].pc = "idle"
     /\ IF user.role # "superadmin"
        THEN /\ req' = [req EXCEPT ![p] = Reply(r, 403, "-", None)]
             /\ UNCHANGED <<backend, authVars, twin, budgetVars,
                            students, currentStudentId, contributions,
                            currentContributionId>>
        ELSE IF backend = "mem"
        THEN MemDeleteContribution(p, r, id)
        ELSE DbDeleteContribution(p, r, id)

\* DatabaseStorage.deleteContribution: `await this.getStudent(..)`
DbDeleteContributionGetStudent(p) ==
  LET r == req[p]
      student == GetStudent(r.contribution[1].studentId)
  IN /\ backend = "db" /\ r.op = "deleteContribution" /\ r.pc = "getStudent"
     /\ req' = [req EXCEPT ![p] =
          [r EXCEPT !.student = student,
                    !.pc = IF DbDeleteWrites(student) THEN "updateStudent"
                           ELSE "deleteRow"]]
     /\ UNCHANGED <<backend, authVars, twin, budgetVars,
                    students, currentStudentId, contributions,
                    currentContributionId>>

\* deleteContribution: `await this.updateStudent(student.id, {..})`
DeleteContributionUpdateStudent(p) ==
  LET r == req[p]
      student == r.student[1]
  IN /\ r.op = "deleteContribution" /\ r.pc = "updateStudent"
     /\ students' = UpdateStudent(student.id,
                      DeleteUpdateData(student, r.contribution[1]))
     /\ req' = [req EXCEPT ![p] = [r EXCEPT !.pc = "deleteRow"]]
     /\ UNCHANGED <<backend, authVars, twin,
                    budgetVars, currentStudentId, contributions,
                    currentContributionId>>

\* MemStorage.deleteContribution: `return this.contributionMap.delete(id)`;
\* the route answers 404 when it is false
MemDeleteContributionDelete(p) ==
  LET r == req[p]
  IN /\ backend = "mem" /\ r.op = "deleteContribution" /\ r.pc = "deleteRow"
     /\ contributions' = DeleteRow(contributions, r.id)
     /\ req' = [req EXCEPT ![p] =
          IF r.id \in DOMAIN contributions
          THEN Reply(r, 204, "true", None)
          ELSE Reply(r, 404, "false", None)]
     /\ UNCHANGED <<backend, authVars, twin,
                    budgetVars, students, currentStudentId,
                    currentContributionId>>

\* DatabaseStorage.deleteContribution: DELETE .. WHERE id; `return !!result`
\* is true whatever the statement deleted (result is the query result object)
DbDeleteContributionDelete(p) ==
  LET r == req[p]
  IN /\ backend = "db" /\ r.op = "deleteContribution" /\ r.pc = "deleteRow"
     /\ contributions' = DeleteRow(contributions, r.id)
     /\ req' = [req EXCEPT ![p] = Reply(r, 204, "true", None)]
     /\ UNCHANGED <<backend, authVars, twin,
                    budgetVars, students, currentStudentId,
                    currentContributionId>>

------------------------------------------------------------------------------
(* Attendees: PUT /api/students/:id and the bulk import *)

\* a Student row as createStudent stores it: {...insertStudent, id}
NewStudent(id, ins) ==
  [id |-> id, firstName |-> ins.firstName, section |-> ins.section,
   mobile |-> ins.mobile, attendingStatus |-> ins.attendingStatus,
   paidStatus |-> ins.paidStatus, contributionAmount |-> ins.contributionAmount]

\* mobiles are numbered; this one is the empty string, which the schema's
\* z.string() accepts and JS takes as falsy
EmptyMobile == 0

\* "mobile is changing": parsedData.mobile && parsedData.mobile !==
\* existingStudent.mobile
MobileChanges(student, data) ==
  /\ "mobile" \in DOMAIN data
  /\ data.mobile # EmptyMobile
  /\ data.mobile # student.mobile

\* POST /api/students up to `await storage.getStudentByMobile(..)`
PostStudents(p, user, body) ==
  LET r == [IdleReq EXCEPT !.op = "createStudent", !.user = user,
                           !.body = body]
  IN /\ req[p].pc = "idle"
     /\ currentStudentId <= MaxStudents
     /\ req' = [req EXCEPT ![p] =
          IF ~IsAdmin(user) THEN Reply(r, 403, "-", None)
          ELSE IF user.role = "section_admin" /\ body.section # user.section
          THEN Reply(r, 403, "-", None)
          ELSE IF GetStudentByMobile(body.mobile) # None
          THEN Reply(r, 400, "-", None)
          ELSE [r EXCEPT !.pc = "createStudent"]]
     /\ UNCHANGED <<backend, authVars, twin, budgetVars,
                    students, currentStudentId, contributions,
                    currentContributionId>>

\* POST /api/students: `await storage.createStudent(parsedData)`; in the
\* database a mobile that a row holds makes the INSERT throw (the serial
\* value is consumed all the same)
PostStudentsCreate(p) ==
  LET r == req[p]
      student == NewStudent(currentStudentId, r.body)
  IN /\ r.op = "createStudent" /\ r.pc = "createStudent"
     /\ currentStudentId' = currentStudentId + 1
     /\ IF backend = "db" /\ WithMobile(r.body.mobile) # {}
        THEN /\ students' = students
             /\ req' = [req EXCEPT ![p] = Reply(r, 500, "throw", None)]
        ELSE /\ students' = SetRow(students, currentStudentId, student)
             /\ req' = [req EXCEPT ![p] =
                  Reply(r, 201, "student", Some(student))]
     /\ UNCHANGED <<backend, authVars, twin,
                    budgetVars, contributions, currentContributionId>>

\* PUT /api/students/:id up to the first statement after getStudent
PutStudents(p, user, id, body) ==
  LET r == [IdleReq EXCEPT !.op = "updateStudent", !.user = user, !.id = id,
                           !.body = body]
      found == GetStudent(id)
  IN /\ req[p].pc = "idle"
     /\ req' = [req EXCEPT ![p] =
          IF ~IsAdmin(user) THEN Reply(r, 403, "-", None)
          ELSE IF found = None THEN Reply(r, 404, "undefined", None)
          ELSE IF user.role = "section_admin" /\ found[1].section # user.section
          THEN Reply(r, 403, "-", None)
          ELSE IF /\ "section" \in DOMAIN body
                  /\ user.role = "section_admin"
                  /\ body.section # user.section
          THEN Reply(r, 403, "-", None)
          ELSE [r EXCEPT !.student = found,
                         !.pc = IF MobileChanges(found[1], body)
                                THEN "checkMobile" ELSE "updateStudent"]]
     /\ UNCHANGED <<backend, authVars, twin, budgetVars,
                    students, currentStudentId, contributions,
                    currentContributionId>>

\* PUT /api/students/:id: `await storage.getStudentByMobile(..)`
PutStudentsCheckMobile(p) ==
  LET r == req[p]
      other == GetStudentByMobile(r.body.mobile)
  IN /\ r.op = "updateStudent" /\ r.pc = "checkMobile"
     /\ req' = [req EXCEPT ![p] =
          IF other # None /\ other[1].id # r.id
          THEN Reply(r, 400, "-", None)
          ELSE [r EXCEPT !.pc = "updateStudent"]]
     /\ UNCHANGED <<backend, authVars, twin, budgetVars,
                    students, currentStudentId, contributions,
                    currentContributionId>>

\* students.mobile is UNIQUE in the database: the statement throws when
\* another row holds the mobile
MobileTaken(id, data) ==
  /\ backend = "db"
  /\ "mobile" \in DOMAIN data
  /\ WithMobile(data.mobile) \ {id} # {}

\* PUT /api/students/:id: `await storage.updateStudent(id, parsedData)`
PutStudentsUpdate(p) ==
  LET r == req[p]
  IN /\ r.op = "updateStudent" /\ r.pc = "updateStudent"
     /\ IF r.id \notin DOMAIN students
        THEN /\ students' = students
             /\ req' = [req EXCEPT ![p] = Reply(r, 404, "undefined", None)]
        ELSE IF MobileTaken(r.id, r.body)
        THEN /\ students' = students
             /\ req' = [req EXCEPT ![p] = Reply(r, 500, "throw", None)]
        ELSE /\ students' = UpdateStudent(r.id, r.body)
             /\ req' = [req EXCEPT ![p] =
                  Reply(r, 200, "student", Some(Merge(students[r.id], r.body)))]
     /\ UNCHANGED <<backend, authVars, twin,
                    budgetVars, currentStudentId, contributions,
                    currentContributionId>>

\* the rows of an import a principal may send on: a section admin's rows of
\* other sections are skipped
RECURSIVE ImportRows(_, _)
ImportRows(user, rows) ==
  IF rows = <<>> THEN <<>>
  ELSE IF user.role = "section_admin" /\ Head(rows).section # user.section
  THEN ImportRows(user, Tail(rows))
  ELSE <<Head(rows)>> \o ImportRows(user, Tail(rows))

\* POST /api/students/import up to bulkImportStudents' first
\* `await this.getStudentByMobile(..)`
PostStudentsImport(p, user, rows) ==
  LET newStudents == ImportRows(user, rows)
      r == [IdleReq EXCEPT !.op = "bulkImportStudents", !.user = user,
                           !.body = newStudents]
  IN /\ req[p].pc = "idle"
     /\ currentStudentId + Len(rows) - 1 <= MaxStudents
     /\ req' = [req EXCEPT ![p] =
          IF ~IsAdmin(user) THEN Reply(r, 403, "-", None)
          ELSE IF Len(newStudents) = 0 THEN Reply(r, 400, "-", None)
          ELSE [r EXCEPT !.pc = "importWrite", !.idx = 1,
                         !.student = GetStudentByMobile(newStudents[1].mobile)]]
     /\ UNCHANGED <<backend, authVars, twin, budgetVars,
                    students, currentStudentId, contributions,
                    currentContributionId>>

\* bulkImportStudents after record idx has been written: the next record's
\* lookup, or the return and the route's 201
ImportAdvance(r, created) ==
  IF r.idx = Len(r.body)
  THEN [Reply(r, 201, "students", None) EXCEPT !.created = created]
  ELSE [r EXCEPT !.pc = "importLookup", !.created = created, !.student = None]

\* bulkImportStudents: `await this.updateStudent(existingStudent.id,
\* studentData)` or `await this.createStudent(studentData)`
ImportWrite(p) ==
  LET r == req[p]
      studentData == r.body[r.idx]
  IN /\ r.op = "bulkImportStudents" /\ r.pc = "importWrite"
     /\ IF r.student # None
        THEN LET id == r.student[1].id
             IN /\ students' = UpdateStudent(id, studentData)
                /\ currentStudentId' = currentStudentId
                /\ req' = [req EXCEPT ![p] =
                     IF id \in DOMAIN students
                     THEN ImportAdvance(r,
                            Append(r.created, Merge(students[id], studentData)))
                     ELSE ImportAdvance(r, r.created)]
        ELSE IF backend = "db" /\ WithMobile(studentData.mobile) # {}
        THEN /\ students' = students
             /\ currentStudentId' = currentStudentId + 1
             /\ req' = [req EXCEPT ![p] =
                  [Reply(r, 500, "throw", None) EXCEPT !.created = r.created]]
        ELSE LET student == NewStudent(currentStudentId, studentData)
             IN /\ students' = SetRow(students, currentStudentId, student)
                /\ currentStudentId' = currentStudentId + 1
                /\ req' = [req EXCEPT ![p] =
                     ImportAdvance(r, Append(r.created, student))]
     /\ UNCHANGED <<backend, authVars, twin,
                    budgetVars, contributions, currentContributionId>>

\* bulkImportStudents: the next record's `await this.getStudentByMobile(..)`
ImportLookup(p) ==
  LET r == req[p]
  IN /\ r.op = "bulkImportStudents" /\ r.pc = "importLookup"
     /\ req' = [req EXCEPT ![p] =
          [r EXCEPT !.pc = "importWrite", !.idx = r.idx + 1,
                    !.student = GetStudentByMobile(r.body[r.idx + 1].mobile)]]
     /\ UNCHANGED <<backend, authVars, twin, budgetVars,
                    students, currentStudentId, contributions,
                    currentContributionId>>

------------------------------------------------------------------------------
(* Budget items, expenses and getBudgetSummary *)

\* the fixed category list of the summary, in its order
Categories ==
  <<"venue", "food", "entertainment", "decoration", "transportation", "gifts",
    "technology", "marketing", "miscellaneous">>

\* the values of expense_category, the type of the two category columns
ExpenseCategories == {Categories[i] : i \in DOMAIN Categories}

\* a JS number, and a JS string that holds the decimal text of a number
JsNumber(n) == [type |-> "number", value |-> n]
JsString(n) == [type |-> "string", value |-> n]

\* JS ToNumber, as the operator `-` applies it to both operands
ToNumber(v) == v.value

\* JS `v || 0`: 0 for a number 0; a non-empty string is truthy, "0" as well
OrZeroJs(v) == IF v.type = "number" /\ v.value = 0 THEN JsNumber(0) ELSE v

\* SELECT COALESCE(SUM(amount), 0): sum(integer) is a bigint, which
\* node-postgres hands over as its decimal text
SqlSum(rows) == JsString(SumAmounts(rows, DOMAIN rows))

RECURSIVE SumEstimated(_, _)
\* items.reduce((sum, item) => sum + item.estimatedAmount, 0) over `ids`
SumEstimated(rows, ids) ==
  IF ids = {} THEN 0
  ELSE LET i == CHOOSE x \in ids : TRUE
       IN rows[i].estimatedAmount + SumEstimated(rows, ids \ {i})

RECURSIVE SumContributionAmounts(_, _)
\* allStudents.reduce((sum, student) => sum + (student.contributionAmount || 0), 0)
SumContributionAmounts(rows, ids) ==
  IF ids = {} THEN 0
  ELSE LET i == CHOOSE x \in ids : TRUE
       IN OrZero(rows[i].contributionAmount)
            + SumContributionAmounts(rows, ids \ {i})

\* rows.filter(row => row.category === category), as the ids
InCategory(rows, category) ==
  {i \in DOMAIN rows : rows[i].category = category}

\* DatabaseStorage: allExpenses.reduce into a record category -> sum, with an
\* entry for each category some expense has
ExpensesByCategory(allExpenses) ==
  [c \in {allExpenses[i].category : i \in DOMAIN allExpenses} |->
     SumAmounts(allExpenses, InCategory(allExpenses, c))]

\* MemStorage: the breakdown entry of one category
MemBreakdownEntry(allBudgetItems, allExpenses, category) ==
  [category |-> category,
   estimatedAmount |->
     SumEstimated(allBudgetItems, InCategory(allBudgetItems, category)),
   actualAmount |-> SumAmounts(allExpenses, InCategory(allExpenses, category))]

\* the breakdown entry of DatabaseStorage that takes the whole of the
\* expenses for every category
DbBreakdownEntryUngrouped(allBudgetItems, allExpenses, category) ==
  [category |-> category,
   estimatedAmount |->
     SumEstimated(allBudgetItems, InCategory(allBudgetItems, category)),
   actualAmount |-> SumAmounts(allExpenses, DOMAIN allExpenses)]

\* DatabaseStorage: the breakdown entry of one category, with
\* `expensesByCategory[category] || 0`
DbBreakdownEntry(allBudgetItems, allExpenses, category) ==
  LET expensesByCategory == ExpensesByCategory(allExpenses)
  IN [category |-> category,
      estimatedAmount |->
        SumEstimated(allBudgetItems, InCategory(allBudgetItems, category)),
      actualAmount |-> IF category \in DOMAIN expensesByCategory
                       THEN expensesByCategory[category] ELSE 0]

\* categories.map(..): one entry per fixed category, in the list's order
CategoryBreakdown(allBudgetItems, allExpenses) ==
  [i \in DOMAIN Categories |->
     IF backend = "mem"
     THEN MemBreakdownEntry(allBudgetItems, allExpenses, Categories[i])
     ELSE DbBreakdownEntry(allBudgetItems, allExpenses, Categories[i])]

\* the summary whose balance adds the expenses to the contributions
BudgetSummaryAddsExpenses(allBudgetItems, allExpenses, totalExpenses, totalContributions) ==
  [totalBudget |->
     JsNumber(SumEstimated(allBudgetItems, DOMAIN allBudgetItems)),
   totalExpenses |-> totalExpenses,
   totalContributions |-> totalContributions,
   balance |->
     JsNumber(ToNumber(totalContributions) + ToNumber(totalExpenses)),
   categoryBreakdown |-> CategoryBreakdown(allBudgetItems, allExpenses)]

\* the BudgetSummary both backends return
BudgetSummary(allBudgetItems, allExpenses, totalExpenses, totalContributions) ==
  [totalBudget |->
     JsNumber(SumEstimated(allBudgetItems, DOMAIN allBudgetItems)),
   totalExpenses |-> totalExpenses,
   totalContributions |-> totalContributions,
   balance |->
     JsNumber(ToNumber(totalContributions) - ToNumber(totalExpenses)),
   categoryBreakdown |-> CategoryBreakdown(allBudgetItems, allExpenses)]

\* POST /api/budget: createBudgetItem(req.body); the database's category
\* column takes the enum's values only (the INSERT throws, the serial value
\* is consumed)
PostBudget(p, user, body) ==
  LET r == [IdleReq EXCEPT !.op = "createBudgetItem", !.user = user,
                           !.body = body]
      id == currentBudgetItemId
      budgetItem == [id |-> id, category |-> body.category,
                     estimatedAmount |-> body.estimatedAmount]
  IN /\ req[p].pc = "idle"
     /\ currentBudgetItemId <= MaxBudgetItems
     /\ IF ~IsAdmin(user)
        THEN /\ req' = [req EXCEPT ![p] = Reply(r, 403, "-", None)]
             /\ UNCHANGED <<budgetItems, currentBudgetItemId>>
        ELSE IF backend = "db" /\ body.category \notin ExpenseCategories
        THEN /\ req' = [req EXCEPT ![p] = Reply(r, 500, "throw", None)]
             /\ currentBudgetItemId' = id + 1
             /\ UNCHANGED budgetItems
        ELSE /\ req' = [req EXCEPT ![p] =
                  Reply(r, 201, "budgetItem", Some(budgetItem))]
             /\ currentBudgetItemId' = id + 1
             /\ budgetItems' = SetRow(budgetItems, id, budgetItem)
     /\ UNCHANGED <<backend, authVars, twin,
                    ledgerVars, expenses, currentExpenseId>>

\* POST /api/expenses: createExpense({...req.body, createdBy})
PostExpenses(p, user, body) ==
  LET r == [IdleReq EXCEPT !.op = "createExpense", !.user = user,
                           !.body = body]
      id == currentExpenseId
      expense == [id |-> id, category |-> body.category,
                  amount |-> body.amount]
  IN /\ req[p].pc = "idle"
     /\ currentExpenseId <= MaxExpenses
     /\ IF ~IsAdmin(user)
        THEN /\ req' = [req EXCEPT ![p] = Reply(r, 403, "-", None)]
             /\ UNCHANGED <<expenses, currentExpenseId>>
        ELSE IF backend = "db" /\ body.category \notin ExpenseCategories
        THEN /\ req' = [req EXCEPT ![p] = Reply(r, 500, "throw", None)]
             /\ currentExpenseId' = id + 1
             /\ UNCHANGED expenses
        ELSE /\ req' = [req EXCEPT ![p] = Reply(r, 201, "expense", Some(expense))]
             /\ currentExpenseId' = id + 1
             /\ expenses' = SetRow(expenses, id, expense)
     /\ UNCHANGED <<backend, authVars, twin,
                    ledgerVars, budgetItems, currentBudgetItemId>>

\* GET /api/budget-summary up to `await this.getBudgetItems()`
GetBudgetSummary(p, user) ==
  LET r == [IdleReq EXCEPT !.op = "getBudgetSummary", !.user = user]
  IN /\ req[p].pc = "idle"
     /\ req' = [req EXCEPT ![p] =
          [r EXCEPT !.pc = "getExpenses", !.allBudgetItems = budgetItems]]
     /\ UNCHANGED <<backend, authVars, twin, ledgerVars, budgetVars>>

\* getBudgetSummary: `await this.getExpenses()`
BudgetSummaryGetExpenses(p) ==
  LET r == req[p]
  IN /\ r.op = "getBudgetSummary" /\ r.pc = "getExpenses"
     /\ req' = [req EXCEPT ![p] =
          [r EXCEPT !.allExpenses = expenses,
                    !.pc = IF backend = "mem" THEN "getStudents"
                           ELSE "sumExpenses"]]
     /\ UNCHANGED <<backend, authVars, twin, ledgerVars, budgetVars>>

\* MemStorage.getBudgetSummary: `await this.getStudents()`, the totals and
\* the return
MemBudgetSummaryGetStudents(p) ==
  LET r == req[p]
      totalContributions ==
        JsNumber(SumContributionAmounts(students, DOMAIN students))
      totalExpenses ==
        JsNumber(SumAmounts(r.allExpenses, DOMAIN r.allExpenses))
  IN /\ backend = "mem" /\ r.op = "getBudgetSummary" /\ r.pc = "getStudents"
     /\ req' = [req EXCEPT ![p] =
          Reply(r, 200, "summary",
                Some(BudgetSummary(r.allBudgetItems, r.allExpenses,
                                   totalExpenses, totalContributions)))]
     /\ UNCHANGED <<backend, authVars, twin, ledgerVars, budgetVars>>

\* DatabaseStorage.getBudgetSummary: the SUM over expenses, `|| 0`
DbBudgetSummarySumExpenses(p) ==
  LET r == req[p]
  IN /\ backend = "db" /\ r.op = "getBudgetSummary" /\ r.pc = "sumExpenses"
     /\ req' = [req EXCEPT ![p] =
          [r EXCEPT !.totalExpenses = Some(OrZeroJs(SqlSum(expenses))),
                    !.pc = "sumContributions"]]
     /\ UNCHANGED <<backend, authVars, twin, ledgerVars, budgetVars>>

\* DatabaseStorage.getBudgetSummary: the SUM over contributions, `|| 0`, the
\* balance, the breakdown and the return
DbBudgetSummarySumContributions(p) ==
  LET r == req[p]
      totalContributions == OrZeroJs(SqlSum(contributions))
  IN /\ backend = "db" /\ r.op = "getBudgetSummary"
     /\ r.pc = "sumContributions"
     /\ req' = [req EXCEPT ![p] =
          Reply(r, 200, "summary",
                Some(BudgetSummary(r.allBudgetItems, r.allExpenses,
                                   r.totalExpenses[1], totalContributions)))]
     /\ UNCHANGED <<backend, authVars, twin, ledgerVars, budgetVars>>

------------------------------------------------------------------------------
(* getContributions *)

\* what GET /api/contributions passes on: each of studentId, limit and offset
\* is a number or undefined (None)
NoOptions == [studentId |-> None, limit |-> None, offset |-> None]

Min(a, b) == IF a <= b THEN a ELSE b

\* Array.prototype.slice(from, to) for 0 <= from <= to
Slice(s, from, to) == SubSeq(s, from + 1, Min(to, Len(s)))

RECURSIVE InIdOrder(_, _)
\* the rows with ids in `ids` in ascending id order: the iteration order of
\* contributionMap (insertion order; ids are handed out ascending)
InIdOrder(rows, ids) ==
  IF ids = {} THEN <<>>
  ELSE LET i == CHOOSE x \in ids : \A y \in ids : x <= y
       IN <<rows[i]>> \o InIdOrder(rows, ids \ {i})

\* the ids `filter` / `WHERE student_id =` keeps; skipped when studentId is
\* falsy
FilteredIds(options) ==
  IF Truthy(options.studentId)
  THEN RowsOf(contributions, options.studentId[1])
  ELSE DOMAIN contributions

\* MemStorage.getContributions(options)
MemGetContributions(options) ==
  LET filtered == InIdOrder(contributions, FilteredIds(options))
  IN IF options.limit # None /\ options.offset # None
     THEN Slice(filtered, options.offset[1],
                options.offset[1] + options.limit[1])
     ELSE filtered

\* the orders ORDER BY date DESC may give the rows with ids in `ids`: every
\* arrangement with the dates not ascending (the order of equal dates is the
\* engine's)
DateDescOrders(rows, ids) ==
  {s \in [1 .. Cardinality(ids) -> {rows[i] : i \in ids}] :
     /\ \A i, j \in DOMAIN s : i < j => s[i].id # s[j].id
     /\ \A i, j \in DOMAIN s : i < j => s[i].date >= s[j].date}

\* DatabaseStorage.getContributions(options) on the rows as the engine
\* ordered them: LIMIT when limit is truthy, OFFSET only inside that
DbPaginate(ordered, options) ==
  IF Truthy(options.limit)
  THEN Slice(ordered, OrZero(options.offset),
             OrZero(options.offset) + options.limit[1])
  ELSE ordered

\* DatabaseStorage.getContributions(options): the results the statement may
\* give
DbGetContributions(options) ==
  {DbPaginate(ordered, options) :
     ordered \in DateDescOrders(contributions, FilteredIds(options))}

\* GET /api/contributions: requireAuth, `await storage.getContributions`,
\* res.json
GetContributions(p, user, options) ==
  LET r == [IdleReq EXCEPT !.op = "getContributions", !.user = user,
                           !.body = Some(options)]
  IN /\ req[p].pc = "idle"
     /\ \E listed \in (IF backend = "mem" THEN {MemGetContributions(options)}
                       ELSE DbGetContributions(options)) :
          req' = [req EXCEPT ![p] = Reply(r, 200, "list", Some(listed))]
     /\ UNCHANGED <<backend, authVars, twin, ledgerVars, budgetVars>>

------------------------------------------------------------------------------
(* getDashboardSummary *)

\* the sections the summary lists, in its order
SectionList == <<"A", "B", "C", "D">>

\* const planningDays = 365
PlanningDays == 365

\* `today` is read to the millisecond; the model counts time in ticks, this
\* many to a day of 1000 * 3600 * 24 ms
TicksPerDay == 2

\* Math.round((num / den) * 100) for den > 0: the nearest integer, a half
\* rounded up (no ratio of the model's operands is within rounding error of
\* a half)
RoundPercent(num, den) == (200 * num + den) \div (2 * den)

\* Math.ceil(ticks / TicksPerDay) and Math.floor(ticks / TicksPerDay)
CeilDays(ticks) == -((-ticks) \div TicksPerDay)
FloorDays(ticks) == ticks \div TicksPerDay

\* MemStorage: Math.ceil(timeDiff / (1000 * 3600 * 24))
MemDaysRemaining(timeDiff) == CeilDays(timeDiff)

\* DatabaseStorage: Math.max(0, Math.floor(timeDiff / (1000 * 60 * 60 * 24)))
DbDaysRemaining(timeDiff) == Max(0, FloorDays(timeDiff))

\* the progress without the clamp to [0, 100]
ProgressPercentageUnclamped(daysRemaining) ==
  RoundPercent(PlanningDays - daysRemaining, PlanningDays)

\* Math.min(100, Math.max(0, Math.round((daysElapsed / planningDays) * 100)))
\* with daysElapsed = planningDays - daysRemaining
ProgressPercentage(daysRemaining) ==
  Min(100, Max(0, RoundPercent(PlanningDays - daysRemaining, PlanningDays)))

\* rows.filter(s => s[field] === value).length over the rows with ids in ids
CountOf(rows, ids, field, value) ==
  Cardinality({i \in ids : rows[i][field] = value})

\* the ids of allStudents.filter(s => s.section === section)
InSection(rows, section) == {i \in DOMAIN rows : rows[i].section = section}

\* section statistics that count every attendee in each section
SectionStatsUnfiltered(allStudents) ==
  [k \in DOMAIN SectionList |->
     LET ids == DOMAIN allStudents
     IN [section |-> SectionList[k],
         totalStudents |-> Cardinality(ids),
         attendingCount |->
           CountOf(allStudents, ids, "attendingStatus", "attending"),
         paidCount |-> CountOf(allStudents, ids, "paidStatus", "paid"),
         pendingCount |-> CountOf(allStudents, ids, "paidStatus", "pending"),
         notConfirmedCount |->
           CountOf(allStudents, ids, "attendingStatus", "not_confirmed")]]

\* sectionStats: one entry for each of A, B, C, D (the same in both backends)
SectionStats(allStudents) ==
  [k \in DOMAIN SectionList |->
     LET ids == InSection(allStudents, SectionList[k])
     IN [section |-> SectionList[k],
         totalStudents |-> Cardinality(ids),
         attendingCount |->
           CountOf(allStudents, ids, "attendingStatus", "attending"),
         paidCount |-> CountOf(allStudents, ids, "paidStatus", "paid"),
         pendingCount |-> CountOf(allStudents, ids, "paidStatus", "pending"),
         notConfirmedCount |->
           CountOf(allStudents, ids, "attendingStatus", "not_confirmed")]]

\* MemStorage: Math.round((totalExpenses / (totalContributions || 1)) * 100)
MemBudgetUtilization(totalExpenses, totalContributions) ==
  RoundPercent(totalExpenses,
               IF totalContributions = 0 THEN 1 ELSE totalContributions)

\* DatabaseStorage: totalBudget > 0
\*   ? Math.round((totalExpenses / totalBudget) * 100) : 0
\* (`>` and `/` convert the decimal text SUM() gave)
DbBudgetUtilization(totalExpenses, totalBudget) ==
  IF ToNumber(totalBudget) > 0
  THEN RoundPercent(ToNumber(totalExpenses), ToNumber(totalBudget))
  ELSE 0

\* SELECT COALESCE(SUM(estimated_amount), 0) FROM budget_items
SqlSumEstimated(rows) == JsString(SumEstimated(rows, DOMAIN rows))

\* MemStorage.getDashboardSummary: what it returns
MemDashboardSummary(allStudents, allExpenses, timeDiff) ==
  LET ids == DOMAIN allStudents
      totalContributions == SumContributionAmounts(allStudents, ids)
      totalExpenses == SumAmounts(allExpenses, DOMAIN allExpenses)
      daysRemaining == MemDaysRemaining(timeDiff)
  IN [totalStudents |-> Cardinality(ids),
      attendingCount |->
        CountOf(allStudents, ids, "attendingStatus", "attending"),
      paidCount |-> CountOf(allStudents, ids, "paidStatus", "paid"),
      totalContributions |-> JsNumber(totalContributions),
      totalExpenses |-> JsNumber(totalExpenses),
      sectionStats |-> SectionStats(allStudents),
      budgetUtilization |->
        MemBudgetUtilization(totalExpenses, totalContributions),
      daysRemaining |-> daysRemaining,
      progressPercentage |-> ProgressPercentage(daysRemaining)]

\* DatabaseStorage.getDashboardSummary: what it returns
DbDashboardSummary(allStudents, totalContributions, totalExpenses, totalBudget, timeDiff) ==
  LET ids == DOMAIN allStudents
      daysRemaining == DbDaysRemaining(timeDiff)
  IN [totalStudents |-> Cardinality(ids),
      attendingCount |->
        CountOf(allStudents, ids, "attendingStatus", "attending"),
      notAttendingCount |->
        CountOf(allStudents, ids, "attendingStatus", "not_attending"),
      notConfirmedCount |->
        CountOf(allStudents, ids, "attendingStatus", "not_confirmed"),
      paidCount |-> CountOf(allStudents, ids, "paidStatus", "paid"),
      pendingCount |-> CountOf(allStudents, ids, "paidStatus", "pending"),
      notPaidCount |-> CountOf(allStudents, ids, "paidStatus", "not_paid"),
      totalContributions |-> totalContributions,
      totalExpenses |-> totalExpenses,
      budgetUtilization |-> DbBudgetUtilization(totalExpenses, totalBudget),
      daysRemaining |-> daysRemaining,
      progressPercentage |-> ProgressPercentage(daysRemaining),
      sectionStats |-> SectionStats(allStudents)]

\* GET /api/dashboard (requireAuth) up to `await this.getStudents()`
GetDashboard(p, user) ==
  LET r == [IdleReq EXCEPT !.op = "getDashboardSummary", !.user = user]
  IN /\ req[p].pc = "idle"
     /\ req' = [req EXCEPT ![p] =
          [r EXCEPT !.allStudents = students,
                    !.pc = IF backend = "mem" THEN "getExpenses"
                           ELSE "sumContributions"]]
     /\ UNCHANGED <<backend, authVars, twin, ledgerVars, budgetVars>>

\* MemStorage.getDashboardSummary: `await this.getExpenses()`, the counts
\* and totals, `new Date()` (timeDiff ticks before the reunion) and the return
MemDashboardGetExpenses(p, timeDiff) ==
  LET r == req[p]
  IN /\ backend = "mem" /\ r.op = "getDashboardSummary"
     /\ r.pc = "getExpenses"
     /\ req' = [req EXCEPT ![p] =
          Reply(r, 200, "summary",
                Some(MemDashboardSummary(r.allStudents, expenses, timeDiff)))]
     /\ UNCHANGED <<backend, authVars, twin, ledgerVars, budgetVars>>

\* DatabaseStorage.getDashboardSummary: the SUM over contributions, `|| 0`
DbDashboardSumContributions(p) ==
  LET r == req[p]
  IN /\ backend = "db" /\ r.op = "getDashboardSummary"
     /\ r.pc = "sumContributions"
     /\ req' = [req EXCEPT ![p] =
          [r EXCEPT !.totalContributions = Some(OrZeroJs(SqlSum(contributions))),
                    !.pc = "sumExpenses"]]
     /\ UNCHANGED <<backend, authVars, twin, ledgerVars, budgetVars>>

\* DatabaseStorage.getDashboardSummary: the SUM over expenses, `|| 0`
DbDashboardSumExpenses(p) ==
  LET r == req[p]
  IN /\ backend = "db" /\ r.op = "getDashboardSummary"
     /\ r.pc = "sumExpenses"
     /\ req' = [req EXCEPT ![p] =
          [r EXCEPT !.totalExpenses = Some(OrZeroJs(SqlSum(expenses))),
                    !.pc = "sumBudget"]]
     /\ UNCHANGED <<backend, authVars, twin, ledgerVars, budgetVars>>

\* DatabaseStorage.getDashboardSummary: the SUM over budget items, `|| 0`,
\* the utilization, the section statistics, `new Date()` (timeDiff ticks
\* before the reunion) and the return
DbDashboardSumBudget(p, timeDiff) ==
  LET r == req[p]
      totalBudget == OrZeroJs(SqlSumEstimated(budgetItems))
  IN /\ backend = "db" /\ r.op = "getDashboardSummary"
     /\ r.pc = "sumBudget"
     /\ req' = [req EXCEPT ![p] =
          Reply(r, 200, "summary",
                Some(DbDashboardSummary(r.allStudents, r.totalContributions[1],
                                        r.totalExpenses[1], totalBudget,
                                        timeDiff)))]
     /\ UNCHANGED <<backend, authVars, twin, ledgerVars, budgetVars>>

------------------------------------------------------------------------------
(* Users and POST /api/register *)

\* no more than this many user rows are ever inserted
MaxUsers == 3

\* usernames are numbered like the mobiles (a student account's username is
\* the attendee's mobile); this one is "admin"
AdminName == 9

\* a body without a role (MemStorage stores none; the column defaults to
\* 'student')
NoRole == "-"

\* the roles POST /api/register guards
AdminRoles == {"section_admin", "superadmin"}

\* the default superadmin MemStorage's constructor and
\* DatabaseStorage.initializeDatabase create
DefaultAdmin ==
  [id |-> 1, username |-> AdminName, role |-> "superadmin", section |-> None,
   studentId |-> None]

\* a request without a session: req.isAuthenticated() is false
Anonymous == [id |-> 0, role |-> "anonymous", section |-> "-"]

\* req.user of a session of the user row u (passport.deserializeUser)
Principal(u) ==
  [id |-> u.id, role |-> u.role,
   section |-> IF u.section = None THEN "-" ELSE u.section[1]]

\* getUserByUsername(username): some row or undefined
GetUserByUsername(username) ==
  IF \E i \in DOMAIN users : users[i].username = username
  THEN Some(users[CHOOSE i \in DOMAIN users : users[i].username = username])
  ELSE None

\* a guard that lets every role through
RegisterForbiddenNever(user, body) == FALSE

\* "Only allow superadmins to create section_admin accounts"
RegisterForbidden(user, body) ==
  /\ body.role \in AdminRoles
  /\ user.id = 0 \/ user.role # "superadmin"

\* createUser(userData): the row inserted
NewUser(id, ins) ==
  [id |-> id, username |-> ins.username,
   role |-> IF backend = "db" /\ ins.role = NoRole THEN "student"
            ELSE ins.role,
   section |-> ins.section, studentId |-> ins.studentId]

\* POST /api/register up to `await storage.getUserByUsername(..)`
Register(p, user, body) ==
  LET r == [IdleReq EXCEPT !.op = "register", !.user = user,
                           !.body = Some(body)]
  IN /\ req[p].pc = "idle"
     /\ currentUserId <= MaxUsers
     /\ req' = [req EXCEPT ![p] =
          IF RegisterForbidden(user, body) THEN Reply(r, 403, "-", None)
          ELSE IF GetUserByUsername(body.username) # None
          THEN Reply(r, 400, "-", None)
          ELSE IF body.role = "student" /\ Truthy(body.studentId)
          THEN [r EXCEPT !.pc = "getStudent"]
          ELSE [r EXCEPT !.pc = "createUser"]]
     /\ UNCHANGED <<backend, authVars, twin, ledgerVars, budgetVars>>

\* POST /api/register: `await storage.getStudent(req.body.studentId)`
RegisterGetStudent(p) ==
  LET r == req[p]
      student == GetStudent(r.body[1].studentId[1])
  IN /\ r.op = "register" /\ r.pc = "getStudent"
     /\ req' = [req EXCEPT ![p] =
          IF student = None THEN Reply(r, 400, "-", None)
          ELSE [r EXCEPT !.student = student, !.pc = "getUsers"]]
     /\ UNCHANGED <<backend, authVars, twin, ledgerVars, budgetVars>>

\* POST /api/register: `await storage.getUsers()`, the check that the
\* attendee has no account, and the username and section taken from the
\* attendee
RegisterGetUsers(p) ==
  LET r == req[p]
      body == r.body[1]
      student == r.student[1]
  IN /\ r.op = "register" /\ r.pc = "getUsers"
     /\ req' = [req EXCEPT ![p] =
          IF \E i \in DOMAIN users : users[i].studentId = body.studentId
          THEN Reply(r, 400, "-", None)
          ELSE [r EXCEPT !.body = Some([body EXCEPT
                                          !.username = student.mobile,
                                          !.section = Some(student.section)]),
                         !.pc = "createUser"]]
     /\ UNCHANGED <<backend, authVars, twin, ledgerVars, budgetVars>>

\* POST /api/register: `await storage.createUser(userData)` and the answer;
\* in the database a username that a row holds, or a studentId that no
\* attendee has, makes the INSERT throw (the serial value is consumed)
RegisterCreateUser(p) ==
  LET r == req[p]
      body == r.body[1]
      user == NewUser(currentUserId, body)
  IN /\ r.op = "register" /\ r.pc = "createUser"
     /\ currentUserId' = currentUserId + 1
     /\ IF /\ backend = "db"
           /\ \/ GetUserByUsername(body.username) # None
              \/ body.studentId # None /\ GetStudent(body.studentId[1]) = None
        THEN /\ users' = users
             /\ req' = [req EXCEPT ![p] = Reply(r, 500, "throw", None)]
        ELSE /\ users' = SetRow(users, currentUserId, user)
             /\ req' = [req EXCEPT ![p] = Reply(r, 201, "user", Some(user))]
     /\ UNCHANGED <<backend, twin, ledgerVars, budgetVars>>

------------------------------------------------------------------------------
(* deleteStudent *)

\* the rows whose foreign key names attendee id: contributions.student_id
\* and users.student_id (both without ON DELETE)
References(id) ==
  \/ RowsOf(contributions, id) # {}
  \/ \E i \in DOMAIN users : users[i].studentId = Some(id)

\* DELETE /api/students/:id: requireSuperAdmin and
\* `await storage.deleteStudent(id)`.  MemStorage: studentMap.delete(id).
\* DatabaseStorage: DELETE .. WHERE id, which throws while a row references
\* the attendee; `return !!result` is true whatever the statement deleted
DeleteStudents(p, user, id) ==
  LET r == [IdleReq EXCEPT !.op = "deleteStudent", !.user = user, !.id = id]
  IN /\ req[p].pc = "idle"
     /\ IF user.role # "superadmin"
        THEN /\ req' = [req EXCEPT ![p] = Reply(r, 403, "-", None)]
             /\ UNCHANGED students
        ELSE IF backend = "mem"
        THEN /\ students' = DeleteRow(students, id)
             /\ req' = [req EXCEPT ![p] =
                  IF id \in DOMAIN students THEN Reply(r, 204, "true", None)
                  ELSE Reply(r, 404, "false", None)]
        ELSE IF References(id)
        THEN /\ req' = [req EXCEPT ![p] = Reply(r, 500, "throw", None)]
             /\ UNCHANGED students
        ELSE /\ students' = DeleteRow(students, id)
             /\ req' = [req EXCEPT ![p] = Reply(r, 204, "true", None)]
     /\ UNCHANGED <<backend, authVars, twin, budgetVars, currentStudentId,
                    contributions, currentContributionId>>

------------------------------------------------------------------------------
(* Two storage instances side by side *)

\* IStorage has two implementations; `twin` holds the attendee and ledger
\* tables of an instance of the other one, which is served each request
\* right after the instance in `students`, `contributions` has answered it.
\* twin.served is the twin's implementation, twin.input the request being
\* served twice, twin.mem and twin.db what each instance answered last

\* what a finished request answered
Outcome(r) == [status |-> r.status, ret |-> r.ret, result |-> r.result]

\* the request a finished request record came from
InputOf(r) == [op |-> r.op, user |-> r.user, id |-> r.id, body |-> r.body]

\* the instance being served has answered process 1's request: the other
\* instance takes its place, with the request still to serve when it is the
\* DatabaseStorage instance's turn
SwitchInstance ==
  LET r == req[1]
  IN /\ r.pc = "done"
     /\ backend' = twin.served
     /\ students' = twin.students
     /\ currentStudentId' = twin.currentStudentId
     /\ contributions' = twin.contributions
     /\ currentContributionId' = twin.currentContributionId
     /\ twin' = [students |-> students,
                 currentStudentId |-> currentStudentId,
                 contributions |-> contributions,
                 currentContributionId |-> currentContributionId,
                 served |-> backend,
                 input |-> IF backend = "mem" THEN Some(InputOf(r))
                           ELSE twin.input,
                 mem |-> IF backend = "mem" THEN Some(Outcome(r)) ELSE twin.mem,
                 db |-> IF backend = "db" THEN Some(Outcome(r)) ELSE twin.db]
     /\ req' = [req EXCEPT ![1] = IdleReq]
     /\ UNCHANGED <<authVars, budgetVars>>

\* the request `input` arrives once more
Replay(p, input) ==
  \/ input.op = "createContribution"
       /\ PostContributions(p, input.user, input.body)
  \/ input.op = "updateContribution"
       /\ PutContributions(p, input.user, input.id, input.body)
  \/ input.op = "deleteContribution"
       /\ DeleteContributions(p, input.user, input.id)
  \/ input.op = "updateStudent"
       /\ PutStudents(p, input.user, input.id, input.body)
  \/ input.op = "getDashboardSummary" /\ GetDashboard(p, input.user)

------------------------------------------------------------------------------
(* Initial state and specifications *)

\* the two attendees every run starts with: no contributions yet, the
\* schema's default statuses, contributionAmount 0 or not set
SeedStudent(id, amount) ==
  NewStudent(id, [firstName |-> "a", section |-> IF id = 1 THEN "A" ELSE "B",
                  mobile |-> id, attendingStatus |-> "not_confirmed",
                  paidStatus |-> "not_paid", contributionAmount |-> amount])

NoRows == [i \in {} |-> None]

\* a second storage instance (a DatabaseStorage) holding the attendees
\* `rows` and an empty ledger, not served yet
TwinOf(rows) ==
  [students |-> rows, currentStudentId |-> 3, contributions |-> NoRows,
   currentContributionId |-> 1, served |-> "db", input |-> None,
   mem |-> None, db |-> None]

\* the tables of one storage instance after construction and seeding
InitTables ==
  /\ backend \in Backends
  /\ \E a \in [{1, 2} -> {None, Some(0)}] :
       students = [i \in {1, 2} |-> SeedStudent(i, a[i])]
  /\ currentStudentId = 3
  /\ contributions = NoRows
  /\ currentContributionId = 1
  /\ budgetItems = NoRows
  /\ currentBudgetItemId = 1
  /\ expenses = NoRows
  /\ currentExpenseId = 1
  /\ users = [i \in {1} |-> DefaultAdmin]
  /\ currentUserId = 2
  /\ req = [p \in Procs |-> IdleReq]

\* one storage instance, no second one
Init == InitTables /\ twin = TwinOf(NoRows)

\* attendee ids a request may name (3 names no attendee at the start)
StudentIds == {1, 2, 3}
\* contribution ids a request may name
ContributionIds == 1 .. MaxContributions

\* request bodies that respect the documented preconditions
CreateBodies ==
  [studentId : StudentIds, amount : PositiveAmounts, date : Dates]
UpdateBodies ==
  [amount : PositiveAmounts] \cup [date : Dates]
    \cup [amount : PositiveAmounts, date : Dates]

\* the steps of the requests in flight
Step(p) ==
  \/ DbCreateContributionGetStudent(p)
  \/ CreateContributionGetContributions(p)
  \/ CreateContributionUpdateStudent(p)
  \/ DbUpdateContributionGetStudent(p)
  \/ UpdateContributionUpdateStudent(p)
  \/ MemUpdateContributionSet(p)
  \/ DbUpdateContributionSet(p)
  \/ DbDeleteContributionGetStudent(p)
  \/ DeleteContributionUpdateStudent(p)
  \/ MemDeleteContributionDelete(p)
  \/ DbDeleteContributionDelete(p)
  \/ Respond(p)

\* a contribution request by a superadmin arrives
LedgerRequest(p) ==
  \/ \E body \in CreateBodies : PostContributions(p, SuperAdmin, body)
  \/ \E id \in ContributionIds, body \in UpdateBodies :
       PutContributions(p, SuperAdmin, id, body)
  \/ \E id \in ContributionIds : DeleteContributions(p, SuperAdmin, id)

\* contribution ids the racing requests name
RacingIds == {1, 2}

\* the same, all for attendee 1
RacingRequest(p) ==
  \/ \E body \in [studentId : {1}, amount : PositiveAmounts, date : Dates] :
       PostContributions(p, SuperAdmin, body)
  \/ \E id \in RacingIds, body \in [amount : PositiveAmounts] :
       PutContributions(p, SuperAdmin, id, body)
  \/ \E id \in RacingIds : DeleteContributions(p, SuperAdmin, id)

\* a superadmin edits an attendee's payment status by hand
StatusEdit(p) ==
  \E id \in {1, 2}, body \in [paidStatus : {"pending", "not_applicable"}] :
    PutStudents(p, SuperAdmin, id, body)

\* requests served one at a time: a request arrives only when none is in flight
NextSeq ==
  \/ AllIdle /\ LedgerRequest(1)
  \/ AllIdle /\ StatusEdit(1)
  \/ Step(1)
  \/ PutStudentsUpdate(1)

SpecSeq == Init /\ [][NextSeq]_vars

\* the steps of a racing request: it stays finished, with its answer
RacingStep(p) ==
  \/ DbCreateContributionGetStudent(p)
  \/ CreateContributionGetContributions(p)
  \/ CreateContributionUpdateStudent(p)
  \/ DbUpdateContributionGetStudent(p)
  \/ UpdateContributionUpdateStudent(p)
  \/ MemUpdateContributionSet(p)
  \/ DbUpdateContributionSet(p)
  \/ DbDeleteContributionGetStudent(p)
  \/ DeleteContributionUpdateStudent(p)
  \/ MemDeleteContributionDelete(p)
  \/ DbDeleteContributionDelete(p)

\* one request per process, interleaved at their await points
NextConc == \E p \in Procs : RacingRequest(p) \/ RacingStep(p)

SpecConc == Init /\ [][NextConc]_vars

\* the records an import may carry
ImportRecords ==
  [firstName : {"a", "b"}, section : {"A", "B"}, mobile : {1, 2, 3},
   attendingStatus : {"not_confirmed"}, paidStatus : {"not_paid"},
   contributionAmount : {Some(0)}]

\* the longest import
MaxImport == 2

ImportBatches == UNION {[1 .. n -> ImportRecords] : n \in 1 .. MaxImport}

\* an attendee request arrives: an import, or an edit of name or mobile
StudentRequest(p) ==
  \/ \E user \in {SuperAdmin, SectionAdminA}, rows \in ImportBatches :
       PostStudentsImport(p, user, rows)
  \/ \E user \in {SuperAdmin, SectionAdminA}, id \in StudentIds,
        body \in [firstName : {"a", "b"}] \cup [mobile : {1, 2, 3}] :
       PutStudents(p, user, id, body)

\* attendee requests served one at a time
NextStudents ==
  \/ AllIdle /\ StudentRequest(1)
  \/ ImportWrite(1)
  \/ ImportLookup(1)
  \/ PutStudentsCheckMobile(1)
  \/ PutStudentsUpdate(1)
  \/ Respond(1)

SpecStudents == Init /\ [][NextStudents]_vars

\* request bodies as the routes take them: req.body goes to the storage
\* method as it is
RawCreateBodies == [studentId : {1}, amount : RawAmounts, date : Dates]
RawUpdateBodies == [amount : RawAmounts]

\* a contribution request arrives, from any principal and with any amount
RawRequest(p) ==
  \/ \E user \in {SuperAdmin, SectionAdminA, StudentUser},
        body \in RawCreateBodies :
       PostContributions(p, user, body)
  \/ \E user \in {SuperAdmin, SectionAdminA, StudentUser},
        id \in ContributionIds, body \in RawUpdateBodies :
       PutContributions(p, user, id, body)
  \/ \E user \in {SuperAdmin, SectionAdminA, StudentUser},
        id \in ContributionIds :
       DeleteContributions(p, user, id)

\* the contribution routes, served one request at a time
NextRoutes ==
  \/ AllIdle /\ RawRequest(1)
  \/ Step(1)

SpecRoutes == Init /\ [][NextRoutes]_vars

\* the mobiles the racing attendee requests carry: the empty one and one
\* that no attendee has at the start
RacingMobiles == {EmptyMobile, 3}

\* the records of the racing imports
MobileRecords ==
  [firstName : {"a"}, section : {"A"}, mobile : RacingMobiles,
   attendingStatus : {"not_confirmed"}, paidStatus : {"not_paid"},
   contributionAmount : {Some(0)}]

MobileBatches == UNION {[1 .. n -> MobileRecords] : n \in 1 .. MaxImport}

\* a superadmin's request that sets a mobile arrives
MobileRequest(p) ==
  \/ \E body \in MobileRecords : PostStudents(p, SuperAdmin, body)
  \/ \E id \in {1, 2}, body \in [mobile : RacingMobiles] :
       PutStudents(p, SuperAdmin, id, body)
  \/ \E rows \in MobileBatches : PostStudentsImport(p, SuperAdmin, rows)

\* the steps of an attendee request: it stays finished, with its answer
MobileStep(p) ==
  \/ PostStudentsCreate(p)
  \/ PutStudentsCheckMobile(p)
  \/ PutStudentsUpdate(p)
  \/ ImportWrite(p)
  \/ ImportLookup(p)

\* one attendee request per process, two processes, interleaved at their
\* await points
NextMobiles == \E p \in {1, 2} : MobileRequest(p) \/ MobileStep(p)

SpecMobiles == Init /\ [][NextMobiles]_vars

\* the categories a budget or expense request names: two of the fixed list
\* and one outside it
InputCategories == {"venue", "food", "other"}

\* a budget request arrives: a budget item, an expense, a contribution for
\* attendee 1, or the summary
BudgetRequest(p) ==
  \/ \E body \in [category : InputCategories, estimatedAmount : {1}] :
       PostBudget(p, SuperAdmin, body)
  \/ \E body \in [category : InputCategories, amount : PositiveAmounts] :
       PostExpenses(p, SuperAdmin, body)
  \/ PostContributions(p, SuperAdmin,
                       [studentId |-> 1, amount |-> 2, date |-> 1])
  \/ GetBudgetSummary(p, StudentUser)

\* budget requests served one at a time
NextBudget ==
  \/ AllIdle /\ BudgetRequest(1)
  \/ DbCreateContributionGetStudent(1)
  \/ CreateContributionGetContributions(1)
  \/ CreateContributionUpdateStudent(1)
  \/ BudgetSummaryGetExpenses(1)
  \/ MemBudgetSummaryGetStudents(1)
  \/ DbBudgetSummarySumExpenses(1)
  \/ DbBudgetSummarySumContributions(1)
  \/ Respond(1)

SpecBudget == Init /\ [][NextBudget]_vars

\* the attendee records a section admin sends: of the own section or of
\* another, with the mobile of attendee 2 or a new one
SectionRecords ==
  [firstName : {"b"}, section : {"A", "B"}, mobile : {2, 3},
   attendingStatus : {"not_confirmed"}, paidStatus : {"not_paid"},
   contributionAmount : {Some(0)}]

SectionBatches == UNION {[1 .. n -> SectionRecords] : n \in 1 .. MaxImport}

\* a request of the admin of section A arrives, on any route that writes
\* attendees; attendee 1 is of section A, attendee 2 of section B
SectionRequest(p) ==
  \/ \E body \in SectionRecords : PostStudents(p, SectionAdminA, body)
  \/ \E id \in {1, 2}, body \in [firstName : {"b"}] \cup [section : {"A", "B"}] :
       PutStudents(p, SectionAdminA, id, body)
  \/ \E rows \in SectionBatches : PostStudentsImport(p, SectionAdminA, rows)
  \/ \E body \in [studentId : {1, 2}, amount : {1}, date : Dates] :
       PostContributions(p, SectionAdminA, body)
  \/ \E id \in RacingIds, body \in [amount : PositiveAmounts] :
       PutContributions(p, SectionAdminA, id, body)

\* the section admin's requests, served one at a time
NextSections ==
  \/ AllIdle /\ SectionRequest(1)
  \/ PostStudentsCreate(1)
  \/ PutStudentsUpdate(1)
  \/ ImportWrite(1)
  \/ ImportLookup(1)
  \/ DbCreateContributionGetStudent(1)
  \/ CreateContributionGetContributions(1)
  \/ CreateContributionUpdateStudent(1)
  \/ DbUpdateContributionGetStudent(1)
  \/ UpdateContributionUpdateStudent(1)
  \/ MemUpdateContributionSet(1)
  \/ DbUpdateContributionSet(1)
  \/ Respond(1)

SpecSections == Init /\ [][NextSections]_vars

\* the row the import route makes of a sheet row that has attendee 1's mobile
\* and nothing else but a name: the route's defaults fill the rest
ReimportRecord ==
  [firstName |-> "a", section |-> "A", mobile |-> 1,
   attendingStatus |-> "not_confirmed", paidStatus |-> "not_paid",
   contributionAmount |-> Some(0)]

\* a superadmin edits attendee 1: the payment status or the total by hand, or
\* an import that carries the attendee again
AttendeeEdit(p) ==
  \/ \E body \in [paidStatus : {"pending"}] \cup [contributionAmount : {Some(0)}] :
       PutStudents(p, SuperAdmin, 1, body)
  \/ PostStudentsImport(p, SuperAdmin, <<ReimportRecord>>)

\* contribution requests for attendee 1 and edits of attendee 1, served one
\* at a time
NextEdits ==
  \/ AllIdle /\ RacingRequest(1)
  \/ AllIdle /\ AttendeeEdit(1)
  \/ Step(1)
  \/ PutStudentsUpdate(1)
  \/ ImportWrite(1)

SpecEdits == Init /\ [][NextEdits]_vars

\* contribution requests for attendee 1, served one at a time, with
\* attendee updates that may fail
NextFaults ==
  \/ AllIdle /\ RacingRequest(1)
  \/ Step(1)
  \/ DbCreateContributionUpdateStudentFaults(1)

SpecFaults == Init /\ [][NextFaults]_vars

\* a contribution for attendee 1 is created, or a row is updated with a body
\* that carries an amount or a studentId
OwnerRequest(p) ==
  \/ \E body \in [studentId : {1}, amount : PositiveAmounts, date : Dates] :
       PostContributions(p, SuperAdmin, body)
  \/ \E id \in RacingIds, body \in [amount : PositiveAmounts] \cup [studentId : {2}] :
       PutContributions(p, SuperAdmin, id, body)

\* creates and updates with such bodies, served one at a time
NextOwner ==
  \/ AllIdle /\ OwnerRequest(1)
  \/ DbCreateContributionGetStudent(1)
  \/ CreateContributionGetContributions(1)
  \/ CreateContributionUpdateStudent(1)
  \/ DbUpdateContributionGetStudent(1)
  \/ UpdateContributionUpdateStudent(1)
  \/ MemUpdateContributionSet(1)
  \/ DbUpdateContributionSet(1)
  \/ Respond(1)

SpecOwner == Init /\ [][NextOwner]_vars

\* the dates of the listed contributions
ListDates == {1, 2}

\* the query parameters of a listing: `?limit=0` and `?offset=0` are
\* non-empty strings, so they reach the storage as the number 0
ListOptions ==
  [studentId : {None, Some(1)}, limit : {None, Some(0), Some(1), Some(2)},
   offset : {None, Some(0), Some(1)}]

\* a contribution is recorded or removed, or the ledger is listed
ListRequest(p) ==
  \/ \E body \in [studentId : {1, 2}, amount : {1}, date : ListDates] :
       PostContributions(p, SuperAdmin, body)
  \/ \E id \in ContributionIds : DeleteContributions(p, SuperAdmin, id)
  \/ \E options \in ListOptions : GetContributions(p, StudentUser, options)

\* the ledger is written and listed, one request at a time
NextList ==
  \/ AllIdle /\ ListRequest(1)
  \/ DbCreateContributionGetStudent(1)
  \/ CreateContributionGetContributions(1)
  \/ CreateContributionUpdateStudent(1)
  \/ DbDeleteContributionGetStudent(1)
  \/ DeleteContributionUpdateStudent(1)
  \/ MemDeleteContributionDelete(1)
  \/ DbDeleteContributionDelete(1)
  \/ Respond(1)

SpecList == Init /\ [][NextList]_vars

\* the instants a summary is asked for when the date does not matter: a
\* day and a half before the reunion, and half a day after it
SomeInstants == {3, -1}

\* a budget item, an expense or a contribution for attendee 1 is recorded,
\* or the dashboard is asked for
DashboardRequest(p) ==
  \/ \E body \in [category : {"venue"}, estimatedAmount : {1, 2}] :
       PostBudget(p, SuperAdmin, body)
  \/ \E body \in [category : {"venue"}, amount : PositiveAmounts] :
       PostExpenses(p, SuperAdmin, body)
  \/ PostContributions(p, SuperAdmin,
                       [studentId |-> 1, amount |-> 2, date |-> 1])
  \/ GetDashboard(p, StudentUser)

\* the steps of a dashboard request asked for at one of `instants`
DashboardStep(p, instants) ==
  \/ \E timeDiff \in instants : MemDashboardGetExpenses(p, timeDiff)
  \/ DbDashboardSumContributions(p)
  \/ DbDashboardSumExpenses(p)
  \/ \E timeDiff \in instants : DbDashboardSumBudget(p, timeDiff)

\* the money is recorded and the dashboard read, one request at a time
NextDashboard ==
  \/ AllIdle /\ DashboardRequest(1)
  \/ DbCreateContributionGetStudent(1)
  \/ CreateContributionGetContributions(1)
  \/ CreateContributionUpdateStudent(1)
  \/ DashboardStep(1, SomeInstants)
  \/ Respond(1)

SpecDashboard == Init /\ [][NextDashboard]_vars

\* the dashboard is asked for up to this many days before the reunion and
\* up to this many days after it
MaxDaysBefore == 367
MaxDaysAfter == 3

\* the instants a summary may be asked for, in ticks before the reunion
Instants == (-MaxDaysAfter * TicksPerDay) .. (MaxDaysBefore * TicksPerDay)

\* the dashboard is read at any of the instants
NextProgress ==
  \/ AllIdle /\ GetDashboard(1, StudentUser)
  \/ DashboardStep(1, Instants)
  \/ Respond(1)

SpecProgress == Init /\ [][NextProgress]_vars

\* the attendees a superadmin adds: in section A or C, with any attending
\* and payment status
CountedRecords ==
  [firstName : {"a"}, section : {"A", "C"}, mobile : {3, 4},
   attendingStatus : AttendingStatuses, paidStatus : PaidStatuses,
   contributionAmount : {Some(0)}]

\* an attendee is added, or the dashboard is asked for
CountsRequest(p) ==
  \/ \E body \in CountedRecords : PostStudents(p, SuperAdmin, body)
  \/ GetDashboard(p, StudentUser)

\* attendees are added and counted, one request at a time
NextCounts ==
  \/ AllIdle /\ CountsRequest(1)
  \/ PostStudentsCreate(1)
  \/ DashboardStep(1, SomeInstants)
  \/ Respond(1)

SpecCounts == Init /\ [][NextCounts]_vars

\* what POST /api/register is sent: any role or none, a free username or
\* the admin's, no attendee, attendee 1 or an attendee that does not exist
RegisterBodies ==
  [username : {AdminName, 5, 6},
   role : AdminRoles \cup {"student", NoRole},
   section : {None}, studentId : {None, Some(1), Some(3)}]

\* who sends it: nobody logged in, or any user there is
Requesters == {Anonymous} \cup {Principal(users[i]) : i \in DOMAIN users}

\* registrations, served one at a time
NextUsers ==
  \/ AllIdle /\ \E user \in Requesters, body \in RegisterBodies :
                  Register(1, user, body)
  \/ RegisterGetStudent(1)
  \/ RegisterGetUsers(1)
  \/ RegisterCreateUser(1)
  \/ Respond(1)

SpecUsers == Init /\ [][NextUsers]_vars

\* the steps of a deleteContribution in flight
DeleteStep(p) ==
  \/ DbDeleteContributionGetStudent(p)
  \/ DeleteContributionUpdateStudent(p)
  \/ MemDeleteContributionDelete(p)
  \/ DbDeleteContributionDelete(p)

\* contributions for attendee 1 are recorded one at a time; then processes 2
\* and 3 each send one DELETE /api/contributions/1, interleaved at their
\* await points
NextDeletes ==
  \/ AllIdle /\ \E body \in [studentId : {1}, amount : PositiveAmounts,
                             date : Dates] :
                  PostContributions(1, SuperAdmin, body)
  \/ DbCreateContributionGetStudent(1)
  \/ CreateContributionGetContributions(1)
  \/ CreateContributionUpdateStudent(1)
  \/ Respond(1)
  \/ \E p \in {2, 3} : req[1].pc = "idle" /\ DeleteContributions(p, SuperAdmin, 1)
  \/ \E p \in {2, 3} : DeleteStep(p)

SpecDeletes == Init /\ [][NextDeletes]_vars

\* a contribution for an attendee that exists is recorded, a contribution is
\* removed, or an attendee is deleted
RemovalRequest(p) ==
  \/ \E body \in [studentId : {1, 2}, amount : PositiveAmounts, date : Dates] :
       body.studentId \in DOMAIN students
         /\ PostContributions(p, SuperAdmin, body)
  \/ \E id \in RacingIds : DeleteContributions(p, SuperAdmin, id)
  \/ \E id \in StudentIds, user \in {SuperAdmin, SectionAdminA} :
       DeleteStudents(p, user, id)

\* the same, one request at a time
NextRemoval ==
  \/ AllIdle /\ RemovalRequest(1)
  \/ DbCreateContributionGetStudent(1)
  \/ CreateContributionGetContributions(1)
  \/ CreateContributionUpdateStudent(1)
  \/ DeleteStep(1)
  \/ Respond(1)

SpecRemoval == Init /\ [][NextRemoval]_vars

\* a run starts with a MemStorage instance and a DatabaseStorage twin
InitPair == InitTables /\ backend = "mem" /\ twin = TwinOf(students)

\* a contribution request for an attendee that exists, with a positive
\* amount
PairRequest(p) ==
  \/ \E body \in [studentId : {1, 2}, amount : PositiveAmounts, date : Dates] :
       PostContributions(p, SuperAdmin, body)
  \/ \E id \in ContributionIds, body \in UpdateBodies :
       PutContributions(p, SuperAdmin, id, body)
  \/ \E id \in ContributionIds : DeleteContributions(p, SuperAdmin, id)

\* each contribution request is served by the MemStorage instance and then
\* by the DatabaseStorage instance
NextPair ==
  \/ AllIdle /\ backend = "mem" /\ PairRequest(1)
  \/ AllIdle /\ backend = "db" /\ Replay(1, twin.input[1])
  \/ RacingStep(1)
  \/ SwitchInstance

SpecPair == InitPair /\ [][NextPair]_vars

\* a contribution for attendee 1, an edit of attendee 1's contributionAmount
\* or payment status, or the dashboard
TotalsRequest(p) ==
  \/ \E body \in [studentId : {1}, amount : PositiveAmounts, date : Dates] :
       PostContributions(p, SuperAdmin, body)
  \/ \E id \in RacingIds : DeleteContributions(p, SuperAdmin, id)
  \/ \E body \in [contributionAmount : {Some(2)}] \cup [paidStatus : {"pending"}] :
       PutStudents(p, SuperAdmin, 1, body)
  \/ GetDashboard(p, StudentUser)

\* attendee and contribution requests and dashboard reads, each served by
\* the MemStorage instance and then by the DatabaseStorage instance
NextTotals ==
  \/ AllIdle /\ backend = "mem" /\ TotalsRequest(1)
  \/ AllIdle /\ backend = "db" /\ Replay(1, twin.input[1])
  \/ DbCreateContributionGetStudent(1)
  \/ CreateContributionGetContributions(1)
  \/ CreateContributionUpdateStudent(1)
  \/ DeleteStep(1)
  \/ PutStudentsUpdate(1)
  \/ DashboardStep(1, {3})
  \/ SwitchInstance

SpecTotals == InitPair /\ [][NextTotals]_vars

------------------------------------------------------------------------------
(* Properties *)

\* the attendee's denormalized total, null read as 0
Total(sid) == OrZero(students[sid].contributionAmount)

\* process p has finished a request of kind op
Finished(p, op) == req[p].op = op /\ req[p].pc = "done"

\* process p takes a step of a request of kind op
Acts(p, op) == req'[p] # req[p] /\ req'[p].op = op

\* C1: with the requests served one at a time, whenever no contribution
\* request is in flight every attendee's contributionAmount equals the sum
\* of the amounts of the ledger rows whose studentId is that attendee.
C1_TotalEqualsLedgerSum ==
  req[1].pc \in {"idle", "done"} =>
    \A sid \in DOMAIN students : Total(sid) = LedgerSum(sid)

\* the scenario of the claim, with amounts 1, 1, 2: after create 1, create 1,
\* update the first to 2 and delete the second, the total is 2
C1_Witness ==
  /\ Finished(1, "deleteContribution") /\ req[1].status = 204
  /\ req[1].id = 2 /\ currentContributionId = 3
  /\ DOMAIN contributions = {1}
  /\ contributions[1].studentId = 1 /\ contributions[1].amount = 2
  /\ students[1].contributionAmount = Some(2)

\* processes p and q have both completed a createContribution for the same
\* attendee, both having read the same old contributionAmount, and no other
\* request was made
RacedCreates(p, q) ==
  /\ p # q
  /\ Finished(p, "createContribution") /\ req[p].status = 201
  /\ Finished(q, "createContribution") /\ req[q].status = 201
  /\ req[p].student # None /\ req[q].student # None
  /\ req[p].student[1].id = req[q].student[1].id
  /\ req[p].student[1].contributionAmount = req[q].student[1].contributionAmount
  /\ \A o \in Procs \ {p, q} : req[o].pc = "idle"

\* C2: when two interleaved createContribution calls for one attendee have
\* both read the same old contributionAmount, then after both have completed
\* the attendee's contributionAmount is the old value plus the amount of just
\* one of them, which is less than the sum of the attendee's ledger amounts.
C2_RacingCreatesLoseAnIncrement ==
  \A p, q \in Procs :
    RacedCreates(p, q) =>
      LET sid == req[p].student[1].id
          old == OrZero(req[p].student[1].contributionAmount)
      IN /\ Total(sid) \in {old + req[p].contribution[1].amount,
                            old + req[q].contribution[1].amount}
         /\ Total(sid) < LedgerSum(sid)

\* two creates of amounts 2 and 1 have raced: the total is 1, the ledger holds 3
C2_Witness ==
  /\ RacedCreates(1, 2)
  /\ req[1].contribution[1].amount = 2 /\ req[2].contribution[1].amount = 1
  /\ Total(1) = 1 /\ LedgerSum(1) = 3

\* C3: a completed createContribution for an attendee that had no
\* contribution and paidStatus not_paid leaves paidStatus paid; a completed
\* createContribution for an attendee that already had a contribution leaves
\* paidStatus as it was before the call (requests served one at a time).
C3_FirstContributionPays ==
  (Finished(1, "createContribution") /\ req[1].student # None) =>
    LET sid == req[1].student[1].id
        before == req[1].student[1].paidStatus
        count == Cardinality(RowsOf(contributions, sid))
    IN /\ (count = 1 /\ before = "not_paid") =>
             students[sid].paidStatus = "paid"
       /\ count >= 2 => students[sid].paidStatus = before

\* a second contribution was created for an attendee whose status had been
\* set to pending by hand: it is still pending
C3_Witness ==
  /\ Finished(1, "createContribution") /\ req[1].status = 201
  /\ req[1].student # None /\ req[1].student[1].id = 1
  /\ Cardinality(RowsOf(contributions, 1)) = 2
  /\ students[1].paidStatus = "pending"

\* C4: a step of deleteContribution changes no attendee other than through
\* its one write, and when the contributionAmount c it read is >= 0 that
\* write stores max(0, c - a), a the deleted row's amount: never below 0.
C4_DeleteFloorsAtZero ==
  [][\A p \in Procs :
       Acts(p, "deleteContribution") =>
         \/ students' = students
         \/ LET sid == req[p].student[1].id
                c == OrZero(req[p].student[1].contributionAmount)
                a == req[p].contribution[1].amount
            IN /\ \A o \in DOMAIN students \ {sid} : students'[o] = students[o]
               /\ c >= 0 =>
                    /\ students'[sid].contributionAmount = Some(Max(0, c - a))
                    /\ students'[sid].contributionAmount[1] >= 0]_vars

\* a delete of a row of amount 2 read a drifted total of 1 and wrote 0
C4_Witness ==
  \E p \in Procs :
    /\ req[p].op = "deleteContribution" /\ req[p].pc = "deleteRow"
    /\ req[p].student # None
    /\ req[p].student[1].contributionAmount = Some(1)
    /\ req[p].contribution[1].amount = 2
    /\ students[req[p].student[1].id].contributionAmount = Some(0)

\* C5: a completed updateContribution(id, {amount: n}) on a row with stored
\* amount o # n leaves the owning attendee's contributionAmount changed by
\* exactly n - o and its paidStatus unchanged, and stores n in the row; a
\* step of an updateContribution whose amount is absent or equal to the
\* stored one writes no attendee (requests served one at a time).
C5_UpdateAppliesDifference ==
  /\ [](Finished(1, "updateContribution") /\ req[1].status = 200 =>
          LET old == req[1].contribution[1]
              data == req[1].body
          IN AmountChanges(old, data) =>
               /\ contributions[req[1].id].amount = data.amount
               /\ old.studentId \in DOMAIN students =>
                    /\ req[1].student # None
                    /\ Total(old.studentId) =
                         OrZero(req[1].student[1].contributionAmount)
                           + data.amount - old.amount
                    /\ students[old.studentId].paidStatus =
                         req[1].student[1].paidStatus)
  /\ [][Acts(1, "updateContribution") =>
          \/ students' = students
          \/ /\ req[1].id \in DOMAIN contributions
             /\ AmountChanges(contributions[req[1].id], req[1].body)]_vars

\* the total of an attendee went down from 2 to 1 with an update of 2 to 1
C5_Witness ==
  /\ Finished(1, "updateContribution") /\ req[1].status = 200
  /\ req[1].contribution[1].amount = 2 /\ req[1].body = [amount |-> 1]
  /\ req[1].student # None
  /\ req[1].student[1].contributionAmount = Some(2)
  /\ students[req[1].student[1].id].contributionAmount = Some(1)
  /\ students[req[1].student[1].id].paidStatus = "pending"

\* C6: an updateContribution whose id is not in the ledger answers at once
\* with the absent result and changes no attendee and no ledger row.
C6_UpdateOfMissingIdChangesNothing ==
  [][(/\ req[1].pc = "idle"
      /\ req'[1].op = "updateContribution"
      /\ req'[1].id \notin DOMAIN contributions) =>
       /\ req'[1].pc = "done" /\ req'[1].ret = "undefined"
       /\ req'[1].status = 404
       /\ students' = students
       /\ contributions' = contributions]_vars

\* an update of an id that is not in a non-empty ledger was answered with 404
C6_Witness ==
  /\ Finished(1, "updateContribution") /\ req[1].ret = "undefined"
  /\ req[1].id \notin DOMAIN contributions
  /\ contributions # NoRows
  /\ \E sid \in DOMAIN students : Total(sid) > 0

\* C7: a deleteContribution of an id that is not in the ledger answers false
\* and changes nothing; of an id that is in the ledger it answers true and
\* removes exactly that row; no step of it changes any attendee's paidStatus
\* (requests served one at a time).
C7_DeleteResultAndFrame ==
  /\ [](Finished(1, "deleteContribution") =>
          /\ req[1].ret = (IF req[1].contribution = None THEN "false" ELSE "true")
          /\ req[1].id \notin DOMAIN contributions)
  /\ [][Acts(1, "deleteContribution") =>
          /\ DOMAIN students' = DOMAIN students
          /\ \A sid \in DOMAIN students :
               students'[sid].paidStatus = students[sid].paidStatus
          /\ \/ contributions' = contributions
             \/ /\ req'[1].ret = "true"
                /\ req[1].id \in DOMAIN contributions
                /\ contributions' = DeleteRow(contributions, req[1].id)
          /\ (req[1].pc = "idle" /\ req'[1].id \notin DOMAIN contributions) =>
               /\ req'[1].pc = "done" /\ req'[1].ret = "false"
               /\ students' = students /\ contributions' = contributions
          /\ (req'[1].pc = "done" /\ req'[1].ret = "true") =>
               contributions' # contributions]_vars

\* the last contribution of a paid attendee was deleted: it is still paid
C7_Witness ==
  /\ Finished(1, "deleteContribution") /\ req[1].ret = "true"
  /\ req[1].student # None /\ req[1].student[1].id = 1
  /\ RowsOf(contributions, 1) = {}
  /\ students[1].paidStatus = "paid"
  /\ students[1].contributionAmount = Some(0)

\* C8: a createContribution whose studentId names no attendee returns no
\* Contribution and leaves no row for that studentId in the ledger.
C8_CreateForMissingAttendeeFails ==
  (/\ Finished(1, "createContribution")
   /\ req[1].body.studentId \notin DOMAIN students) =>
     /\ req[1].ret # "contribution"
     /\ RowsOf(contributions, req[1].body.studentId) = {}

\* C9: every ledger row has amount > 0, whatever the contribution routes
\* are sent.
C9_LedgerAmountsPositive ==
  \A id \in DOMAIN contributions : contributions[id].amount > 0

\* the InsertStudent fields of a Student row
InsertFields(rec, student) == [f \in DOMAIN rec |-> student[f]]

\* C10: bulkImportStudents takes the records in input order; a record whose
\* mobile an attendee has updates that attendee (same id, the record's field
\* values) and adds no attendee, any other record adds one attendee with an
\* id no attendee had; the returned sequence has one element per record, in
\* input order (requests served one at a time).
C10_ImportUpserts ==
  /\ [](Finished(1, "bulkImportStudents") /\ req[1].status = 201 =>
          /\ Len(req[1].created) = Len(req[1].body)
          /\ \A i \in 1 .. Len(req[1].body) :
               InsertFields(req[1].body[i], req[1].created[i]) = req[1].body[i])
  /\ [][(req[1].op = "bulkImportStudents" /\ req[1].pc = "importWrite") =>
          LET rec == req[1].body[req[1].idx]
              had == WithMobile(rec.mobile)
          IN /\ Len(req'[1].created) = req[1].idx
             /\ IF had # {}
                THEN \E id \in had :
                       /\ students' = [students EXCEPT ![id] = Merge(@, rec)]
                       /\ students'[id].id = id
                       /\ req'[1].created[req[1].idx] = students'[id]
                ELSE \E id \in DOMAIN students' \ DOMAIN students :
                       /\ DOMAIN students' = DOMAIN students \cup {id}
                       /\ \A o \in DOMAIN students : students'[o] = students[o]
                       /\ students'[id] = NewStudent(id, rec)
                       /\ req'[1].created[req[1].idx] = students'[id]]_vars

\* an import of two records updated attendee 2 (new first name) and then
\* created attendee 3
C10_Witness ==
  /\ Finished(1, "bulkImportStudents") /\ req[1].status = 201
  /\ Len(req[1].body) = 2
  /\ req[1].body[1].mobile = 2 /\ req[1].body[1].firstName = "b"
  /\ req[1].body[2].mobile = 3
  /\ req[1].created[1].id = 2 /\ req[1].created[2].id = 3
  /\ students[2].firstName = "b"
  /\ DOMAIN students = {1, 2, 3}

\* C11: no two attendees have the same mobile, in every state that POST
\* /api/students, PUT /api/students/:id and the bulk import can reach, their
\* requests interleaving at the await points.
C11_MobilesUnique ==
  \A i, j \in DOMAIN students :
    students[i].mobile = students[j].mobile => i = j

\* the summary that process 1 has been answered with
Summary == req[1].result[1]

\* C13: the categoryBreakdown of getBudgetSummary has exactly one entry for
\* each of the nine fixed categories, in the fixed order; its estimatedAmount
\* is the sum of estimatedAmount over the budget items of that category and
\* its actualAmount the sum of amount over the expenses of that category (0
\* and 0 when there are none), so that items and expenses of any other
\* category are in no entry.
C13_BreakdownPerFixedCategory ==
  Finished(1, "getBudgetSummary") =>
    LET cb == Summary.categoryBreakdown
        fixed == <<"venue", "food", "entertainment", "decoration",
                   "transportation", "gifts", "technology", "marketing",
                   "miscellaneous">>
    IN /\ DOMAIN cb = 1 .. 9
       /\ \A i \in 1 .. 9 :
            /\ cb[i].category = fixed[i]
            /\ cb[i].estimatedAmount =
                 SumEstimated(budgetItems,
                   {k \in DOMAIN budgetItems :
                      budgetItems[k].category = fixed[i]})
            /\ cb[i].actualAmount =
                 SumAmounts(expenses,
                   {k \in DOMAIN expenses : expenses[k].category = fixed[i]})

\* the durable backend's summary of one venue item of 1 and expenses of 2 for
\* venue and 1 for food
C13_Witness ==
  /\ Finished(1, "getBudgetSummary") /\ backend = "db"
  /\ DOMAIN budgetItems = {1} /\ budgetItems[1].category = "venue"
  /\ DOMAIN expenses = {1, 2}
  /\ expenses[1].category = "venue" /\ expenses[1].amount = 2
  /\ expenses[2].category = "food" /\ expenses[2].amount = 1
  /\ Summary.categoryBreakdown[1] =
       [category |-> "venue", estimatedAmount |-> 1, actualAmount |-> 2]
  /\ Summary.categoryBreakdown[2] =
       [category |-> "food", estimatedAmount |-> 0, actualAmount |-> 1]
  /\ Summary.categoryBreakdown[3] =
       [category |-> "entertainment", estimatedAmount |-> 0,
        actualAmount |-> 0]

RECURSIVE SumActual(_, _)
\* the sum of actualAmount over the entries `ids` of a breakdown
SumActual(cb, ids) ==
  IF ids = {} THEN 0
  ELSE LET i == CHOOSE x \in ids : TRUE
       IN cb[i].actualAmount + SumActual(cb, ids \ {i})

C15_SectionAdminStaysInSection ==
  [][\A p \in Procs :
       (req'[p] # req[p] /\ req'[p].user.role = "section_admin") =>
         \A sid \in DOMAIN students' :
           IF sid \in DOMAIN students
           THEN students[sid].section # req'[p].user.section =>
                  students'[sid] = students[sid]
           ELSE students'[sid].section = req'[p].user.section]_vars

\* C16: a completed createContribution for an attendee that had a
\* contribution before, be it deleted since, leaves the attendee's paidStatus
\* as it read it.  (Every contribution here is attendee 1's, so the created
\* row's id is above 1 exactly when attendee 1 had one before.)
C16_OnlyFirstEverContributionPays ==
  (/\ Finished(1, "createContribution") /\ req[1].status = 201
   /\ req[1].contribution[1].id > 1) =>
     students[1].paidStatus = req[1].student[1].paidStatus

\* C17: every attendee's contributionAmount is at least 0 (null read as 0)
\* after any sequence of contribution creates, updates to a positive amount
\* and deletes, attendee edits and imports.
C17_TotalsNotNegative ==
  \A sid \in DOMAIN students : Total(sid) >= 0

\* C18: no step of PUT /api/students/:id or of the bulk import changes the
\* contributionAmount (null read as 0) of an attendee that exists.
C18_OnlyLedgerWritesTotals ==
  [][(req'[1].op \in {"updateStudent", "bulkImportStudents"}) =>
       \A sid \in DOMAIN students :
         OrZero(students'[sid].contributionAmount) = Total(sid)]_vars

\* C19: createContribution inserts the ledger row before it reads or writes
\* the attendee: the request's first step leaves the row in the ledger and
\* no attendee changed, and the row is there at every later step of it; when
\* the attendee update fails the request ends with the row still in the
\* ledger and the attendee's contributionAmount and paidStatus as they were
\* read (requests served one at a time).
C19_InsertFirstNoRollback ==
  /\ [][Acts(1, "createContribution") =>
          /\ req[1].pc = "idle" =>
               /\ students' = students
               /\ req'[1].contribution # None =>
                    /\ req'[1].contribution[1].id \notin DOMAIN contributions
                    /\ contributions' =
                         SetRow(contributions, req'[1].contribution[1].id,
                                req'[1].contribution[1])
          /\ req[1].pc \notin {"idle", "done"} =>
               /\ req[1].contribution[1].id \in DOMAIN contributions
               /\ contributions' = contributions]_vars
  /\ [](Finished(1, "createContribution") /\ req[1].ret = "throw"
          /\ req[1].student # None =>
            LET row == req[1].contribution[1]
                old == req[1].student[1]
            IN /\ row.id \in DOMAIN contributions
               /\ contributions[row.id] = row
               /\ students[old.id].contributionAmount = old.contributionAmount
               /\ students[old.id].paidStatus = old.paidStatus)

\* the attendee update of a second contribution of 2 has failed: the ledger
\* holds 1 and 2, the attendee's total is still 1
C19_Witness ==
  /\ Finished(1, "createContribution") /\ req[1].ret = "throw"
  /\ req[1].status = 500 /\ req[1].student # None
  /\ DOMAIN contributions = {1, 2}
  /\ contributions[1].amount = 1 /\ contributions[2].amount = 2
  /\ req[1].contribution[1].id = 2
  /\ students[1].contributionAmount = Some(1)
  /\ students[1].paidStatus = "paid"

\* C20: no step of updateContribution changes the studentId or the
\* recordedBy of a ledger row, whatever body PUT /api/contributions/:id is
\* sent.
C20_UpdateKeepsOwnerAndRecorder ==
  [][Acts(1, "updateContribution") =>
       \A id \in DOMAIN contributions \cap DOMAIN contributions' :
         /\ contributions'[id].studentId = contributions[id].studentId
         /\ contributions'[id].recordedBy = contributions[id].recordedBy]_vars

\* the sequences a listing filtered like `options` may be paginated from:
\* the filtered rows in the backend's order
FilteredSequences(options) ==
  IF backend = "mem" THEN {InIdOrder(contributions, FilteredIds(options))}
  ELSE DateDescOrders(contributions, FilteredIds(options))

\* C21: a finished listing returns, of the rows filtered by studentId in the
\* backend's order (n of them): the first min(L, n) when a limit L is given
\* without an offset, the elements k .. k+L-1 when a limit L and an offset k
\* are given, and all of them when no limit is given (an offset alone is
\* ignored), in MemStorage and in DatabaseStorage.
C21_FilterThenPaginate ==
  Finished(1, "getContributions") =>
    LET options == req[1].body[1]
        listed == req[1].result[1]
    IN \E filtered \in FilteredSequences(options) :
         listed = IF options.limit = None THEN filtered
                  ELSE Slice(filtered, OrZero(options.offset),
                             OrZero(options.offset) + options.limit[1])

\* the budget items' estimatedAmount, summed
TotalBudget == SumEstimated(budgetItems, DOMAIN budgetItems)

\* the expenses' amount, summed
TotalExpenses == SumAmounts(expenses, DOMAIN expenses)

\* C23: the budgetUtilization of a finished dashboard summary is
\* round(100 * totalExpenses / totalBudget) when the budget items'
\* estimatedAmount add up to totalBudget > 0, and 0 when they add up to 0.
C23_UtilizationOfBudget ==
  Finished(1, "getDashboardSummary") =>
    Summary.budgetUtilization =
      IF TotalBudget > 0 THEN RoundPercent(TotalExpenses, TotalBudget) ELSE 0

\* C24: the progressPercentage of a finished dashboard summary is
\* min(100, max(0, round(100 * (365 - daysRemaining) / 365))) of its
\* daysRemaining; it lies in [0, 100], is 100 when daysRemaining <= 0 and 0
\* when daysRemaining >= 365, and is not below the progress of one more day
\* remaining.
C24_ProgressClampedAndMonotone ==
  Finished(1, "getDashboardSummary") =>
    LET d == Summary.daysRemaining
        progress == Summary.progressPercentage
    IN /\ progress = Min(100, Max(0, (200 * (365 - d) + 365) \div 730))
       /\ progress \in 0 .. 100
       /\ d <= 0 => progress = 100
       /\ d >= 365 => progress = 0
       /\ progress >= ProgressPercentage(d + 1)

\* a summary asked for two days after the reunion, in MemStorage (which
\* does not clamp daysRemaining at 0)
C24_Witness ==
  /\ Finished(1, "getDashboardSummary")
  /\ backend = "mem"
  /\ Summary.daysRemaining = -2
  /\ Summary.progressPercentage = 100

RECURSIVE SumOverSections(_, _, _)
\* the sum of sectionStats[k][field] over the entries k in `ks`
SumOverSections(sectionStats, field, ks) ==
  IF ks = {} THEN 0
  ELSE LET k == CHOOSE x \in ks : TRUE
       IN sectionStats[k][field]
            + SumOverSections(sectionStats, field, ks \ {k})

\* the number of attendees the summary read whose `field` is `value`
Counted(field, value) ==
  CountOf(req[1].allStudents, DOMAIN req[1].allStudents, field, value)

C26_AdminsOnlyBySuperadmin ==
  /\ [](Finished(1, "register") =>
          LET r == req[1]
          IN (r.body[1].role \in AdminRoles
                /\ ~(r.user.id # 0 /\ r.user.role = "superadmin"))
               => r.status = 403)
  /\ [][/\ \A i \in DOMAIN users' \ DOMAIN users :
             users'[i].role \in AdminRoles =>
               /\ req'[1].op = "register"
               /\ req'[1].user.id # 0 /\ req'[1].user.role = "superadmin"
        /\ \A i \in DOMAIN users \cap DOMAIN users' :
             users'[i].role = users[i].role
        /\ (req'[1].status = 403 /\ req[1].status # 403) => users' = users]_vars

\* a logged-in superadmin has created a section admin, and that section
\* admin's own request for a superadmin account was answered 403
C26_Witness ==
  /\ Finished(1, "register")
  /\ req[1].status = 403
  /\ req[1].user.role = "section_admin"
  /\ req[1].body[1].role = "superadmin"
  /\ \E i \in DOMAIN users : i # 1 /\ users[i].role = "section_admin"

\* C27: attendee 1 starts with no contributions and not_paid; once every
\* request that arrived is a createContribution for attendee 1 that has
\* completed (at least one of them), however their steps interleaved,
\* attendee 1's paidStatus is paid.
C27_RacingCreatesPay ==
  (/\ \E p \in Procs : Finished(p, "createContribution")
   /\ \A p \in Procs :
        req[p].pc = "idle" \/ Finished(p, "createContribution"))
    => students[1].paidStatus = "paid"

\* C28: when two deleteContribution calls for contribution 1 have run
\* concurrently, both having found the row, attendee 1's contributionAmount
\* has gone down by that contribution's amount at most once (it is not below
\* the sum of the rows that remain, the creates having been served one at a
\* time), and at most one of the two calls returned true.
C28_RacingDeletesOnce ==
  (/\ Finished(2, "deleteContribution") /\ Finished(3, "deleteContribution")
   /\ req[2].contribution # None /\ req[3].contribution # None)
    => /\ Total(1) >= LedgerSum(1)
       /\ ~(req[2].ret = "true" /\ req[3].ret = "true")

\* C29: in every reachable state every ledger row's studentId is the id of
\* an attendee that exists; deleteStudent leaves no contribution of the
\* attendee it deleted.
C29_NoOrphanedContributions ==
  \A i \in DOMAIN contributions :
    contributions[i].studentId \in DOMAIN students

\* both instances have answered the same requests, `op` the last
BothServed(op) ==
  /\ backend = "mem" /\ AllIdle
  /\ twin.db # None /\ twin.input[1].op = op

\* C22: whenever both instances have served the same attendee and
\* contribution requests one at a time and then a dashboard request, the
\* totalContributions MemStorage reported (the sum of the attendees'
\* contributionAmount) equals the one DatabaseStorage reported (the sum of
\* the ledger amounts).
C22_TotalsAgreeAcrossBackends ==
  BothServed("getDashboardSummary") =>
    ToNumber(twin.mem[1].result[1].totalContributions)
      = ToNumber(twin.db[1].result[1].totalContributions)

\* C30: whenever both instances have served the same contribution requests
\* (attendees that exist, positive amounts) one at a time, the last request
\* got the same answer from both, and both hold the same attendees with the
\* same contributionAmount (null read as 0) and paidStatus.
C30_BackendsInterchangeable ==
  (backend = "mem" /\ AllIdle /\ twin.db # None) =>
    /\ twin.mem = twin.db
    /\ DOMAIN students = DOMAIN twin.students
    /\ \A i \in DOMAIN students :
         /\ OrZero(students[i].contributionAmount)
              = OrZero(twin.students[i].contributionAmount)
         /\ students[i].paidStatus = twin.students[i].paidStatus

\* both instances have recorded two contributions for attendee 1 and deleted
\* the first: both answered true, MemStorage holds a total of 2 and
\* DatabaseStorage too
C30_Witness ==
  /\ backend = "mem" /\ AllIdle /\ twin.db # None
  /\ twin.input[1].op = "deleteContribution"
  /\ twin.mem[1].ret = "true" /\ twin.db[1].ret = "true"
  /\ DOMAIN contributions = {2} /\ DOMAIN twin.contributions = {2}
  /\ students[1].contributionAmount = Some(2)
  /\ twin.students[1].contributionAmount = Some(2)
  /\ students[1].paidStatus = "paid"

====
